---- MODULE Spec2Model ----
(***************************************************************************)
(* State-machine model of hartnet.js (Art-Net engine): the hartnet engine, *)
(* its Sender and Receiver objects, the Node registry and the three packet *)
(* codecs (ArtDmx, ArtPoll, ArtPollReply), byte for byte.                  *)
(*                                                                         *)
(* Conventions                                                             *)
(*  - an IPv4 address is the tuple of its four octets, null/undefined is   *)
(*    Null; a Netmask is [base, bits];                                     *)
(*  - a datagram is the sequence of its bytes (TLA+ position = offset+1);  *)
(*  - a JS string is the sequence of its character codes;                  *)
(*  - sent, events and raised hold what the LAST operation sent on the     *)
(*    network, emitted to subscribers and threw; op records the operation  *)
(*    and its inputs.                                                      *)
(***************************************************************************)
EXTENDS Integers, Sequences, FiniteSets, TLC

VARIABLES
  senders,            \* hartnet.senders: ids of the registered Senders, in order
  receivers,          \* hartnet.receivers: ids of the registered Receivers
  sobj,               \* every Sender object ever constructed, by id
  robj,               \* every Receiver object ever constructed, by id
  artPollReplyCount,  \* hartnet.artPollReplyCount
  last_poll_reply,    \* hartnet.last_poll_reply
  controllers,        \* hartnet.controllers
  nodes,              \* hartnet.nodes (Map mac -> Node)
  socket_ready,       \* hartnet.socket_ready
  now,                \* the clock (Date.now(), ms)
  sent,               \* datagrams handed to a socket by the last operation
  events,             \* notifications emitted by the last operation
  raised,             \* error thrown out of the last operation ("none" if none)
  op,                 \* the last operation and its inputs
  txLast,             \* per Sender: sequence byte of its last transmitted ArtDmx (-1: none)
  replyAt,            \* time of the last pollReply() invocation (-1: none)
  errFunc             \* hartnet.errFunc is a function (options.errFunc was one)

vars == <<senders, receivers, sobj, robj, artPollReplyCount, last_poll_reply,
          controllers, nodes, socket_ready, now, sent, events, raised, op,
          txLast, replyAt, errFunc>>

(***************************************************************************)
(* Bounds of the model.                                                    *)
(***************************************************************************)
\* Length of a DMX channel buffer in the model (512 in the program).
NumChannels == 2
\* Senders / Receivers constructed in the DMX specifications.
MaxSenders == 1
MaxReceivers == 2
\* Transmissions a Sender makes where the sequence wrap is not the subject.
SeqCap == 3
\* Devices constructed in the pollReply grouping specification.
MaxDevices == 6
\* pollReply() invocations where the counter wrap is not the subject.
MaxReplies == 3
\* The clock starts at StartTime and runs for at most MaxElapsed ms.
StartTime == 100000
MaxElapsed == 9
\* options.poll_interval of the modelled engine (ms).
PollInterval == 4
\* SpecCtrl runs for MaxSeconds seconds.
MaxSeconds == 1
\* SpecSweep: datagrams arrive during the first TrafficWindow ms, at steps of
\* ArrivalStep ms, and the clock runs for SweepHorizon ms.
TrafficWindow == 7500
ArrivalStep == 2500
SweepHorizon == 80000
\* Senders and Receivers constructed where the advertised set is the subject.
MaxAdvertised == 3

Null == <<>>

Min(a, b) == IF a < b THEN a ELSE b

RECURSIVE Pow2(_)
Pow2(n) == IF n <= 0 THEN 1 ELSE 2 * Pow2(n - 1)

\* Concatenation of a sequence of sequences.
RECURSIVE Flatten(_)
Flatten(ss) == IF ss = <<>> THEN <<>> ELSE Head(ss) \o Flatten(Tail(ss))

(***************************************************************************)
(* Netmask (npm netmask), as the source uses it.                           *)
(***************************************************************************)
\* Number of prefix bits that fall into octet k (1..4) of a /bits mask.
OctetBits(bits, k) ==
  LET nb == bits - 8 * (k - 1) IN IF nb < 0 THEN 0 ELSE IF nb > 8 THEN 8 ELSE nb

\* new Netmask(ip + '/' + bits): the base is the address masked to the prefix.
Netmask(ip, bits) ==
  [base |-> [k \in 1..4 |-> ip[k] - (ip[k] % Pow2(8 - OctetBits(bits, k)))],
   bits |-> bits]

\* netmask.contains(ip)
Contains(nm, ip) ==
  /\ ip # Null
  /\ \A k \in 1..4 :
       (ip[k] \div Pow2(8 - OctetBits(nm.bits, k)))
         = (nm.base[k] \div Pow2(8 - OctetBits(nm.bits, k)))

\* netmask.broadcast (undefined for /31 and /32)
Broadcast(nm) ==
  IF nm.bits > 30 THEN Null
  ELSE [k \in 1..4 |-> nm.base[k] + Pow2(8 - OctetBits(nm.bits, k)) - 1]

IpBroadcastAll == <<255, 255, 255, 255>>

(***************************************************************************)
(* INTERFACES: the local IPv4 interfaces read once at start-up. Two        *)
(* interfaces, 10.0.0.1/24 and 10.0.1.1/24.                                *)
(***************************************************************************)
INTERFACES ==
  << [ip |-> <<10, 0, 0, 1>>, mac |-> <<2, 0, 0, 0, 0, 1>>,
      netmask |-> Netmask(<<10, 0, 0, 1>>, 24)],
     [ip |-> <<10, 0, 1, 1>>, mac |-> <<2, 0, 0, 0, 0, 2>>,
      netmask |-> Netmask(<<10, 0, 1, 1>>, 24)] >>

IsLocalIp(ip) == \E k \in 1..Len(INTERFACES) : INTERFACES[k].ip = ip

(***************************************************************************)
(* jspack: big-endian ('!') Pack of single items. Integers are clamped to  *)
(* the range of their type, strings are cut / zero-padded to their length. *)
(***************************************************************************)
Clamp(v, lo, hi) == IF v < lo THEN lo ELSE IF v > hi THEN hi ELSE v

PackB(v) == << Clamp(v, 0, 255) >>

PackH(v) == << Clamp(v, 0, 65535) \div 256, Clamp(v, 0, 65535) % 256 >>

PackS(n, s) == [i \in 1..n |-> IF i <= Len(s) THEN s[i] ELSE 0]

\* 'Art-Net'
ArtNetId == <<65, 114, 116, 45, 78, 101, 116>>

\* parseInt(undefined, 10): not a number.  It equals no number, itself
\* included, and arithmetic on it gives NaN again.
NaN == "NaN"
IsNaN(v) == ToString(v) = ToString(NaN)

\* parseInt(jspack.Unpack('B', msg, off), 10): the byte at offset off, and NaN
\* past the end of the datagram, where Unpack returns undefined.
ByteAt(msg, off) == IF off + 1 <= Len(msg) THEN msg[off + 1] ELSE NaN


(***************************************************************************)
(* What an operation leaves behind for its observers.                      *)
(***************************************************************************)
Outcome(s, e, r, o) ==
  /\ sent' = s
  /\ events' = e
  /\ raised' = r
  /\ op' = o

Op(kind, id, args) == [kind |-> kind, id |-> id, args |-> args]

(***************************************************************************)
(* Sender                                                                  *)
(***************************************************************************)
\* n << 8 on a non-negative n: the low 32 bits of n * 256, read as a signed
\* 32-bit integer.
Int32Shl8(n) ==
  LET low == n % 16777216
  IN IF low >= 8388608 THEN (low - 16777216) * 256 ELSE low * 256

\* Net/subnet/universe carry and the two port-address integers
\* (the same code in Sender and Receiver).
PortCalc(net, subnet, universe) ==
  LET subnet1 == subnet + (universe \div 16)
      universe1 == universe % 16
      net1 == net + (subnet1 \div 16)
      subnet2 == subnet1 % 16
      subuni == subnet2 * 16 + universe1
  IN [net |-> net1, subnet |-> subnet2, universe |-> universe1,
      port_subuni |-> subuni, port_address |-> Int32Shl8(net1) + subuni]

\* The destination loop of the Sender constructor over INTERFACES[k..].
RECURSIVE ResolveTo(_, _, _)
ResolveTo(to, k, acc) ==
  IF k > Len(INTERFACES) THEN acc
  ELSE LET iface == INTERFACES[k] IN
       IF Contains(iface.netmask, to)
       THEN LET bc == acc.broadcast \/ to = Broadcast(iface.netmask)
                ip4 == IF bc /\ Broadcast(iface.netmask) # Null
                       THEN Broadcast(iface.netmask) ELSE to
            IN ResolveTo(to, k + 1,
                 [broadcast |-> bc, ip4 |-> ip4,
                  interfaces |-> Append(acc.interfaces, k)])
       ELSE ResolveTo(to, k + 1, acc)

SenderDestination(to, broadcast) ==
  IF to = IpBroadcastAll
  THEN [broadcast |-> TRUE, ip4 |-> to,
        interfaces |-> [k \in 1..Len(INTERFACES) |-> k]]
  ELSE ResolveTo(to, 1, [broadcast |-> broadcast, ip4 |-> Null, interfaces |-> <<>>])

\* The ArtDmx datagram: jspack.Pack('!7sBHHBBBBH' + '512B', [...]).
ArtDmxPacket(seq, subuni, net, values) ==
  ArtNetId \o PackB(0) \o PackH(80) \o PackH(14) \o PackB(seq) \o PackB(0)
    \o PackB(subuni) \o PackB(net) \o PackH(512)
    \o Flatten([i \in 1..Len(values) |-> PackB(values[i])])

\* "Increase Sequence Counter"
NextSeqSkip(seq) == (seq + 2) % 256
NextSeq(seq) == (seq + 1) % 256

\* socket.close(): the handle is released; a later send throws
\* ERR_SOCKET_DGRAM_NOT_RUNNING and a bind still pending never completes.
CloseSocketKeepOpen(sock) == sock
CloseSocket(sock) == "closed"

\* Sender.transmit(): the Sender afterwards, what was sent, what was thrown.
transmit(id, o) ==
  IF ~o.socket_ready THEN [obj |-> o, out |-> <<>>, err |-> "none"]
  ELSE LET udppacket == ArtDmxPacket(o.ArtDmxSeq, o.port_subuni, o.net, o.values)
           o2 == [o EXCEPT !.ArtDmxSeq = NextSeq(o.ArtDmxSeq)]
       IN IF o.sock = "closed"
          THEN [obj |-> o2, out |-> <<>>, err |-> "ERR_SOCKET_DGRAM_NOT_RUNNING"]
          ELSE [obj |-> o2,
                out |-> << [from |-> id, to |-> o.ip4, port |-> o.port,
                            msg |-> udppacket] >>,
                err |-> "none"]

\* new Sender(opt, parent). this.handleError is not defined on Sender, so the
\* port-address check throws a TypeError out of the constructor.
SenderNew(id, opt) ==
  LET pc == PortCalc(opt.net, opt.subnet, opt.universe)
      dst == SenderDestination(opt.to, opt.broadcast)
      o == [net |-> pc.net, subnet |-> pc.subnet, universe |-> pc.universe,
            to |-> opt.to, broadcast |-> dst.broadcast, port |-> 6454,
            base_refresh_interval |-> opt.base_refresh_interval,
            port_subuni |-> pc.port_subuni, port_address |-> pc.port_address,
            socket_ready |-> FALSE, ArtDmxSeq |-> 1,
            values |-> [i \in 1..NumChannels |-> 0],
            ip4 |-> dst.ip4, interfaces |-> dst.interfaces,
            sock |-> "binding",
            interval |-> opt.base_refresh_interval > 0]
  IN IF pc.port_address > 32767
     THEN [obj |-> o, out |-> <<>>, err |-> "TypeError"]
     ELSE transmit(id, o)

EngineVars == <<artPollReplyCount, last_poll_reply, controllers, nodes,
                socket_ready, replyAt, errFunc>>

\* The sequence byte (offset 12) of the packets a transmit handed to the socket.
Transmitted(id, t) ==
  IF t.out = <<>> THEN txLast
  ELSE [txLast EXCEPT ![id] = t.out[Len(t.out)].msg[13]]

\* Writes a Sender back after one of its methods ran.
SenderStep(id, t, o) ==
  /\ sobj' = [sobj EXCEPT ![id] = t.obj]
  /\ txLast' = Transmitted(id, t)
  /\ Outcome(t.out, <<>>, t.err, o)
  /\ UNCHANGED <<senders, receivers, robj, now>>
  /\ UNCHANGED EngineVars

\* hartnet.newSender(options)
newSender(opt) ==
  LET id == Len(sobj) + 1
      t == SenderNew(id, opt)
  IN /\ IF t.err # "none"
        THEN UNCHANGED <<sobj, senders, txLast>>
        ELSE /\ sobj' = Append(sobj, t.obj)
             /\ senders' = Append(senders, id)
             /\ txLast' = Append(txLast, -1)
     /\ Outcome(t.out, <<>>, t.err, Op("newSender", id, opt))
     /\ UNCHANGED <<receivers, robj, now>>
     /\ UNCHANGED EngineVars

\* The callback of socket.bind() in the Sender constructor. It runs only if
\* the socket was not closed before the bind completed.
SenderBound(id) ==
  /\ sobj[id].sock = "binding"
  /\ SenderStep(id,
       [obj |-> [sobj[id] EXCEPT !.socket_ready = TRUE, !.sock = "bound"],
        out |-> <<>>, err |-> "none"],
       Op("senderBound", id, <<>>))

\* One firing of the refresh interval of a Sender.
SenderTick(id) ==
  /\ sobj[id].interval
  /\ SenderStep(id, transmit(id, sobj[id]), Op("senderTick", id, <<>>))

\* setChannel without its test of the value.
setChannelAnyValue(id, channel, value) ==
  LET o == sobj[id]
      t == IF channel > 511 \/ channel < 0
           THEN [obj |-> o, out |-> <<>>, err |-> "TypeError"]
           ELSE transmit(id, [o EXCEPT !.values[channel + 1] = value])
  IN SenderStep(id, t, Op("setChannel", id, <<channel, value>>))

\* Sender.setChannel(channel, value). this.handleError is not defined on
\* Sender, so a failed test throws a TypeError before anything is written.
setChannel(id, channel, value) ==
  LET o == sobj[id]
      t == IF channel > 511 \/ channel < 0 \/ value > 255 \/ value < 0
           THEN [obj |-> o, out |-> <<>>, err |-> "TypeError"]
           ELSE transmit(id, [o EXCEPT !.values[channel + 1] = value])
  IN SenderStep(id, t, Op("setChannel", id, <<channel, value>>))

\* Sender.prepChannel(channel, value)
prepChannel(id, channel, value) ==
  LET o == sobj[id]
      t == IF channel > 511 \/ channel < 0 \/ value > 255 \/ value < 0
           THEN [obj |-> o, out |-> <<>>, err |-> "TypeError"]
           ELSE [obj |-> [o EXCEPT !.values[channel + 1] = value],
                 out |-> <<>>, err |-> "none"]
  IN SenderStep(id, t, Op("prepChannel", id, <<channel, value>>))

\* Sender.fillChannels(start, stop, value)
fillChannels(id, start, stop, value) ==
  LET o == sobj[id]
      t == IF \/ start > 511 \/ start < 0 \/ stop > 511 \/ stop < 0
              \/ value > 255 \/ value < 0
           THEN [obj |-> o, out |-> <<>>, err |-> "TypeError"]
           ELSE transmit(id,
                  [o EXCEPT !.values =
                     [i \in 1..Len(o.values) |->
                        IF start <= i - 1 /\ i - 1 <= stop THEN value
                        ELSE o.values[i]]])
  IN SenderStep(id, t, Op("fillChannels", id, <<start, stop, value>>))

\* Sender.blackout()
blackout(id) ==
  LET o == sobj[id]
  IN SenderStep(id,
       transmit(id, [o EXCEPT !.values = [i \in 1..Len(o.values) |-> 0]]),
       Op("blackout", id, <<>>))

\* Sender.stop(): clearInterval, leave hartnet.senders, close the socket
\* (closing a socket that is already closed throws).
stop(id) ==
  LET o == sobj[id] IN
  /\ sobj' = [sobj EXCEPT ![id] = [o EXCEPT !.interval = FALSE,
                                            !.sock = CloseSocket(o.sock)]]
  /\ senders' = SelectSeq(senders, LAMBDA x : x # id)
  /\ Outcome(<<>>, <<>>,
       IF o.sock = "closed" THEN "ERR_SOCKET_DGRAM_NOT_RUNNING" ELSE "none",
       Op("stop", id, <<>>))
  /\ UNCHANGED <<receivers, robj, now, txLast>>
  /\ UNCHANGED EngineVars

(***************************************************************************)
(* Receiver                                                                *)
(***************************************************************************)
\* The source filter of a Receiver: options.from is null, 'a.b.c.d' (bits = -1,
\* completed to /32) or 'a.b.c.d/bits'.
ReceiverIpnet(from) ==
  IF from = Null THEN Netmask(<<0, 0, 0, 0>>, 0)
  ELSE Netmask(from.ip, IF from.bits < 0 THEN 32 ELSE from.bits)

\* new Receiver(opt, parent). this.handleError is not defined on Receiver, so
\* the port-address check throws a TypeError out of the constructor.
ReceiverNew(opt) ==
  LET pc == PortCalc(opt.net, opt.subnet, opt.universe)
      ipnet == ReceiverIpnet(opt.from)
  IN [obj |-> [net |-> pc.net, subnet |-> pc.subnet, universe |-> pc.universe,
               port_subuni |-> pc.port_subuni, port_address |-> pc.port_address,
               ipnet |-> ipnet,
               interfaces |-> SelectSeq([k \in 1..Len(INTERFACES) |-> k],
                                LAMBDA k : Contains(ipnet, INTERFACES[k].ip)),
               values |-> [i \in 1..NumChannels |-> 0]],
      err |-> IF pc.port_address > 32767 THEN "TypeError" ELSE "none"]

\* hartnet.newReceiver(options)
newReceiver(opt) ==
  LET id == Len(robj) + 1
      t == ReceiverNew(opt)
  IN /\ IF t.err # "none"
        THEN UNCHANGED <<robj, receivers>>
        ELSE /\ robj' = Append(robj, t.obj)
             /\ receivers' = Append(receivers, id)
     /\ Outcome(<<>>, <<>>, t.err, Op("newReceiver", id, opt))
     /\ UNCHANGED <<senders, sobj, now, txLast>>
     /\ UNCHANGED EngineVars

\* Receiver.acceptPacket(p_address, rinfo): p_address == this.port_address is
\* false when p_address is NaN, whatever the port address.
acceptPacket(r, p_address, address) ==
  /\ ~IsNaN(p_address)
  /\ p_address = r.port_address
  /\ Contains(r.ipnet, address)

\* Receiver.receive(data): the buffer afterwards.
receive(r, data) == [r EXCEPT !.values = data]

(***************************************************************************)
(* hartnet.dataParser(msg, rinfo)                                          *)
(***************************************************************************)
\* OpCode: byte 8 plus 256 * byte 9.
OpCodeOfHighByte(msg) ==
  IF IsNaN(ByteAt(msg, 9)) THEN NaN ELSE ByteAt(msg, 9) * 256
OpCodeOf(msg) ==
  IF IsNaN(ByteAt(msg, 8)) \/ IsNaN(ByteAt(msg, 9)) THEN NaN
  ELSE ByteAt(msg, 8) + ByteAt(msg, 9) * 256

\* The channel data of an ArtDmx datagram: the bytes from offset 18 on.
DmxDataOffBy1(msg) == IF Len(msg) > 17 THEN SubSeq(msg, 18, Len(msg)) ELSE <<>>
DmxData(msg) == IF Len(msg) > 18 THEN SubSeq(msg, 19, Len(msg)) ELSE <<>>

\* Receivers (ids, in registry order) that accept the datagram.
Accepting(msg, address) ==
  SelectSeq(receivers,
            LAMBDA id : acceptPacket(robj[id], ByteAt(msg, 14), address))

\* A datagram that is dropped without effect.
Discard(o) ==
  /\ Outcome(<<>>, <<>>, "none", o)
  /\ UNCHANGED <<senders, receivers, sobj, robj, now, txLast>>
  /\ UNCHANGED EngineVars

\* case 0x5000
ArtDmxBranch(msg, address, o) ==
  LET acc == Accepting(msg, address)
      data == DmxData(msg)
      hit(id) == \E k \in 1..Len(acc) : acc[k] = id
  IN /\ robj' = [id \in 1..Len(robj) |->
                   IF hit(id) THEN receive(robj[id], data) ELSE robj[id]]
     /\ Outcome(<<>>,
          [k \in 1..Len(acc) |-> [type |-> "data", id |-> acc[k], data |-> data]],
          "none", o)
     /\ UNCHANGED <<senders, receivers, sobj, now, txLast>>
     /\ UNCHANGED EngineVars

(***************************************************************************)
(* Engine options and discovery: ArtPoll and ArtPollReply                  *)
(***************************************************************************)
\* options.name = 'hartnet-node'
OptName == <<104, 97, 114, 116, 110, 101, 116, 45, 110, 111, 100, 101>>

\* The uuid drawn at construction (36 characters).
Uuid == <<48, 48, 48, 48, 48, 48, 48, 48, 45, 48, 48, 48, 48, 45, 52, 48, 48,
          48, 45, 56, 48, 48, 48, 45, 48, 48, 48, 48, 48, 48, 48, 48, 48, 48,
          48, 48>>

Slice(str, n) == SubSeq(str, 1, Min(n, Len(str)))

\* options.sName, options.lName
sName == Slice(OptName, 16)
lName == Slice(OptName, 28) \o <<32>> \o Uuid

\* options.oem, options.esta, options.port
OptOem == 10504
OptEsta == 0
OptPort == 6454

swap16(val) == (val % 256) * 256 + ((val \div 256) % 256)

\* this.pollTo: broadcast of options.poll_to = '0.0.0.0/0'
pollTo == Broadcast(Netmask(<<0, 0, 0, 0>>, 0))

\* '#0001 [' + ('000' + count).slice(-4) + '] hartnet ArtNet-Transceiver running'
stateString(count) ==
  <<35, 48, 48, 48, 49, 32, 91>>
    \o << 48 + ((count \div 1000) % 10), 48 + ((count \div 100) % 10),
          48 + ((count \div 10) % 10), 48 + (count % 10) >>
    \o <<93, 32, 104, 97, 114, 116, 110, 101, 116, 32, 65, 114, 116, 78, 101,
         116, 45, 84, 114, 97, 110, 115, 99, 101, 105, 118, 101, 114, 32, 114,
         117, 110, 110, 105, 110, 103>>

\* '!7sBHBBBBHHBBHBBH18s64s64sH4B4B4B4B4B3HB6B4BBBB', one entry per value.
ArtPollReplyFormat ==
  << <<"s", 7>>, <<"B", 1>>, <<"H", 2>> >>
    \o [i \in 1..4 |-> <<"B", 1>>]
    \o << <<"H", 2>>, <<"H", 2>>, <<"B", 1>>, <<"B", 1>>, <<"H", 2>>,
          <<"B", 1>>, <<"B", 1>>, <<"H", 2>>,
          <<"s", 18>>, <<"s", 64>>, <<"s", 64>>, <<"H", 2>> >>
    \o [i \in 1..20 |-> <<"B", 1>>]
    \o [i \in 1..3 |-> <<"H", 2>>]
    \o [i \in 1..14 |-> <<"B", 1>>]

PackItem(f, v) ==
  IF f[1] = "s" THEN PackS(f[2], v)
  ELSE IF f[1] = "H" THEN PackH(v) ELSE PackB(v)

\* jspack.Pack(format, values)
Pack(format, values) ==
  Flatten([i \in 1..Len(format) |-> PackItem(format[i], values[i])])

\* A local device: a Sender ("S") or a Receiver ("R") of the registry.
Dev(d) == IF d.kind = "S" THEN sobj[d.id] ELSE robj[d.id]

\* createPacket(iface, devices, bindIndex): the value list, then Pack.
\* basePacket[10] and basePacket[11] are entries 11 and 12 here.
createPacket(iface, devices, bindIndex, count) ==
  LET \* The forEach over devices.slice(0, 4): the sum of f(device, index), a
      \* bitwise OR of fields that do not overlap.
      OrFields(k, f(_, _)) ==
        LET term(j) == IF j <= Min(Len(devices), 4) THEN f(devices[j], j - 1) ELSE 0
        IN term(k) + term(k + 1) + term(k + 2) + term(k + 3)
      \* portTypes is kept as its four bytes: byte x holds only the type of
      \* device x, and (portTypes >> 8x) & 0xFF reads it back unchanged, also
      \* when 0x80 << 24 sets the sign bit of the 32-bit value.
      portTypes(x) == IF x < Min(Len(devices), 4)
                      THEN (IF devices[x + 1].kind = "S" THEN 64 ELSE 128)
                      ELSE 0
      goodInput == OrFields(1,
        LAMBDA d, x : IF d.kind = "S" THEN 0 ELSE Pow2(x))
      goodOutput == OrFields(1,
        LAMBDA d, x : IF d.kind = "S" THEN Pow2(x) ELSE 0)
      swIn == OrFields(1,
        LAMBDA d, x : IF d.kind = "S" THEN 0
                      ELSE (Dev(d).universe % 16) * Pow2(4 * x))
      swOut == OrFields(1,
        LAMBDA d, x : IF d.kind = "S" THEN (Dev(d).universe % 16) * Pow2(4 * x)
                      ELSE 0)
      byte(v, k) == (v \div Pow2(8 * k)) % 256
      basePacket ==
        << ArtNetId, 0, 33 >> \o iface.ip
          \o << OptPort, 1, 0, 0, OptOem, 0, 208, swap16(OptEsta),
                Slice(sName, 16), Slice(lName, 63), stateString(count),
                Min(Len(devices), 4) >>
          \o << portTypes(3), portTypes(2), portTypes(1), portTypes(0) >>
          \o << goodInput % 256, 0, 0, 0 >>
          \o << goodOutput % 256, 0, 0, 0 >>
          \o << byte(swIn, 0), byte(swIn, 1), byte(swIn, 2), byte(swIn, 3) >>
          \o << byte(swOut, 0), byte(swOut, 1), byte(swOut, 2), byte(swOut, 3) >>
          \o << 0, 0, 0, 0 >>
          \o iface.mac \o iface.ip \o << 1, 14, bindIndex >>
  IN Pack(ArtPollReplyFormat,
          [basePacket EXCEPT ![11] = Dev(devices[1]).net,
                             ![12] = Dev(devices[1]).subnet])

\* The Senders alone.
LocalDevicesSendersOnly ==
  [k \in 1..Len(senders) |-> [kind |-> "S", id |-> senders[k]]]

\* [...this.senders, ...this.receivers]
LocalDevices ==
  [k \in 1..Len(senders) |-> [kind |-> "S", id |-> senders[k]]]
    \o [k \in 1..Len(receivers) |-> [kind |-> "R", id |-> receivers[k]]]

\* groupedDevices after (device, interface k) is added.
AddToGroup(groups, d, k) ==
  LET same(g) == g.iface = k /\ g.net = Dev(d).net /\ g.subnet = Dev(d).subnet
  IN IF \E j \in 1..Len(groups) : same(groups[j])
     THEN [j \in 1..Len(groups) |->
             IF same(groups[j])
             THEN [groups[j] EXCEPT !.devices = Append(@, d)]
             ELSE groups[j]]
     ELSE Append(groups, [iface |-> k, net |-> Dev(d).net,
                          subnet |-> Dev(d).subnet, devices |-> <<d>>])

\* The grouping loops over devices[di..] and the interfaces [ki..] of a device.
RECURSIVE GroupDevices(_, _, _, _)
GroupDevices(devices, di, ki, groups) ==
  IF di > Len(devices) THEN groups
  ELSE IF ki > Len(Dev(devices[di]).interfaces)
       THEN GroupDevices(devices, di + 1, 1, groups)
       ELSE GroupDevices(devices, di, ki + 1,
              AddToGroup(groups, devices[di], Dev(devices[di]).interfaces[ki]))

groupedDevices == GroupDevices(LocalDevices, 1, 1, <<>>)

\* Math.ceil(devices.length / 4)
packetCountFloor(n) == n \div 4
packetCount(n) == (n + 3) \div 4

\* The ArtPollReply datagrams of one group, one per chunk of four devices.
GroupPackets(g, count) ==
  [c \in 1..packetCount(Len(g.devices)) |->
     [from |-> 0, to |-> Broadcast(INTERFACES[g.iface].netmask), port |-> 6454,
      msg |-> createPacket(INTERFACES[g.iface],
                SubSeq(g.devices, 4 * (c - 1) + 1, Min(4 * c, Len(g.devices))),
                c - 1, count)]]

\* Every datagram one ArtPollReply() call sends, in order.
PollReplyPackets ==
  Flatten([j \in 1..Len(groupedDevices) |->
             GroupPackets(groupedDevices[j], artPollReplyCount)])

\* this.artPollReplyCount after ArtPollReply() sent the packets pk.
NextReplyCountPerPacket(count, pk) == (count + Len(pk)) % 10000
NextReplyCount(count, pk) == (count + 1) % 10000

\* The engine state ArtPollReply() leaves (everything but the registries).
ArtPollReplyEffect(e, o) ==
  /\ artPollReplyCount' = NextReplyCount(artPollReplyCount, PollReplyPackets)
  /\ last_poll_reply' = now
  /\ replyAt' = now
  /\ Outcome(PollReplyPackets, e, "none", o)

\* hartnet.ArtPollReply(), called by the application.
ArtPollReply ==
  /\ ArtPollReplyEffect(<<>>, Op("pollReply", 0, <<>>))
  /\ UNCHANGED <<errFunc, senders, receivers, sobj, robj, controllers, nodes,
                 socket_ready, now, txLast>>

\* The ArtPoll datagram: jspack.Pack('!7sBHHBB', ['Art-Net', 0, 0x0020, 14, 0, 0]).
ArtPollPacket ==
  ArtNetId \o PackB(0) \o PackH(32) \o PackH(14) \o PackB(0) \o PackB(0)

\* hartnet.ArtPoll(): what it hands to the socket.
ArtPollSend(ready) ==
  IF ~ready THEN <<>>
  ELSE << [from |-> 0, to |-> pollTo, port |-> OptPort, msg |-> ArtPollPacket] >>

\* The test of the poll timer: was the last ArtPollReply sent less than
\* poll_interval / 2 ms ago (the division is not rounded).
RecentlyRepliedNever(t, last, interval) == FALSE
RecentlyReplied(t, last, interval) == 2 * (t - last) < interval

\* One firing of the poll timer (poll_interval > 0, pollTo not null):
\* setInterval fires every poll_interval ms after the construction.
PollTick ==
  /\ now > StartTime
  /\ (now - StartTime) % PollInterval = 0
  /\ Outcome(IF RecentlyReplied(now, last_poll_reply, PollInterval) THEN <<>>
             ELSE ArtPollSend(socket_ready),
             <<>>, "none", Op("pollTick", 0, <<>>))
  /\ UNCHANGED <<senders, receivers, sobj, robj, now, txLast>>
  /\ UNCHANGED EngineVars

\* The callback of this.socket.bind() in the hartnet constructor.
EngineBound ==
  /\ ~socket_ready
  /\ socket_ready' = TRUE
  /\ Outcome(<<>>, <<>>, "none", Op("engineBound", 0, <<>>))
  /\ UNCHANGED <<errFunc, senders, receivers, sobj, robj, now, txLast,
                 artPollReplyCount, last_poll_reply, controllers, nodes, replyAt>>

\* Time passes: d ms, the clock staying within limit ms of its start.
Advance(d, limit) ==
  /\ now + d <= StartTime + limit
  /\ now' = now + d
  /\ Outcome(<<>>, <<>>, "none", Op("advance", 0, <<d>>))
  /\ UNCHANGED <<senders, receivers, sobj, robj, txLast>>
  /\ UNCHANGED EngineVars

\* Date(): the time as a string, which holds no milliseconds.
DateString(t) == t - (t % 1000)

Bit(v, k) == (v \div Pow2(k)) % 2 = 1

\* "Make controller object"
Controller(msg, address, t) ==
  [ip |-> address, family |-> "IPv4", last_poll |-> DateString(t),
   alive |-> TRUE,
   diagnostic_unicast |-> Bit(ByteAt(msg, 12), 3),
   diagnostic_enable |-> Bit(ByteAt(msg, 12), 2),
   unilateral |-> Bit(ByteAt(msg, 12), 1),
   priority |-> ByteAt(msg, 13)]

\* "Add or update controller"
UpsertControllerMerge(ctrls, ctrl) ==
  IF \E k \in 1..Len(ctrls) : ctrls[k].ip = ctrl.ip
  THEN [k \in 1..Len(ctrls) |->
          IF ctrls[k].ip = ctrl.ip
          THEN [ctrls[k] EXCEPT !.last_poll = ctrl.last_poll, !.alive = TRUE]
          ELSE ctrls[k]]
  ELSE Append(ctrls, ctrl)
UpsertController(ctrls, ctrl) ==
  IF \E k \in 1..Len(ctrls) : ctrls[k].ip = ctrl.ip
  THEN LET key == CHOOSE k \in 1..Len(ctrls) :
                    /\ ctrls[k].ip = ctrl.ip
                    /\ \A j \in 1..(k - 1) : ctrls[j].ip # ctrl.ip
       IN [ctrls EXCEPT ![key] = ctrl]
  ELSE Append(ctrls, ctrl)

\* The protocol version as the parser reads it: byte 10 plus 256 * byte 11.
ProtoOf(msg) ==
  IF IsNaN(ByteAt(msg, 10)) \/ IsNaN(ByteAt(msg, 11)) THEN NaN
  ELSE ByteAt(msg, 10) + ByteAt(msg, 11) * 256

\* Does the ArtPoll branch go on to the controller update?
ArtPollAccepted(msg) ==
  Len(msg) >= 14 /\ ~IsNaN(ProtoOf(msg)) /\ ProtoOf(msg) >= 14

\* case 0x2000
ArtPollBranch(msg, address, o) ==
  IF ~ArtPollAccepted(msg) THEN Discard(o)
  ELSE /\ controllers' = UpsertController(controllers, Controller(msg, address, now))
       /\ ArtPollReplyEffect(<<>>, o)
       /\ UNCHANGED <<errFunc, senders, receivers, sobj, robj, nodes, socket_ready,
                      now, txLast>>

(***************************************************************************)
(* Node registry: the ArtPollReply branch                                  *)
(***************************************************************************)
\* Offset of value i of a format.
RECURSIVE OffsetOf(_, _)
OffsetOf(format, i) ==
  IF i <= 1 THEN 0 ELSE OffsetOf(format, i - 1) + format[i - 1][2]

FormatSize(format) == OffsetOf(format, Len(format) + 1)

\* Value i (1-based) of jspack.Unpack(format, msg).
Unpacked(format, msg, i) ==
  LET off == OffsetOf(format, i)
      f == format[i]
  IN IF f[1] = "s" THEN SubSeq(msg, off + 1, off + f[2])
     ELSE IF f[1] = "H" THEN msg[off + 1] * 256 + msg[off + 2]
     ELSE msg[off + 1]

\* str.replace(/\0+$/, '')
RECURSIVE StripNul(_)
StripNul(str) ==
  IF str # <<>> /\ str[Len(str)] = 0
  THEN StripNul(SubSeq(str, 1, Len(str) - 1)) ELSE str

\* A test that lets every address pass.
isCompatibleWithAnyAddress(remoteIp) == TRUE

\* Node.isCompatibleWithLocalInterfaces(remoteIp)
isCompatibleWithLocalInterfaces(remoteIp) ==
  \E k \in 1..Len(INTERFACES) :
    INTERFACES[k].ip = remoteIp \/ Contains(INTERFACES[k].netmask, remoteIp)

\* The four bytes unpacked[a..a+3] (0-based) as the parser joins them, by byte:
\* Word(...)[1] is the byte shifted by 24, Word(...)[4] the lowest one.
Word(msg, a) ==
  [k \in 1..4 |-> Unpacked(ArtPollReplyFormat, msg, a + k)]

\* (word >> sh) & 0x0F for sh = 28 - 4 * i
NibbleFromTop(w, i) ==
  LET b == w[(i \div 2) + 1]
  IN IF i % 2 = 0 THEN b \div 16 ELSE b % 16

\* The decoded record apr, ports included.
DecodeReply(msg, address) ==
  LET U(i) == Unpacked(ArtPollReplyFormat, msg, i + 1)
      numPorts == U(18)
      portTypes == Word(msg, 19)
      goodInput == Word(msg, 23)
      goodOutput == Word(msg, 27)
      swIn == Word(msg, 31)
      swOut == Word(msg, 35)
      bindIndex == U(Len(ArtPollReplyFormat) - 1)
      slots == [i \in 1..Min(numPorts, 4) |-> i - 1]
      port(i, sw, good) ==
        [net |-> U(10), subnet |-> U(11), universe |-> NibbleFromTop(sw, i),
         ip |-> address, portNumber |-> bindIndex * 4 + i,
         isGood |-> Bit(good[4], i)]
      ins == SelectSeq(slots, LAMBDA i : Bit(portTypes[4 - i], 7))
      outs == SelectSeq(slots, LAMBDA i : Bit(portTypes[4 - i], 6))
  IN [ip |-> address,
      mac |-> SubSeq(msg, 202, 207),
      shortName |-> StripNul(U(15)),
      longName |-> StripNul(U(16)),
      nodeReport |-> StripNul(U(17)),
      numPorts |-> numPorts,
      net |-> U(10), subNet |-> U(11), bindIndex |-> bindIndex,
      inPorts |-> [k \in 1..Len(ins) |-> port(ins[k], swIn, goodInput)],
      outPorts |-> [k \in 1..Len(outs) |-> port(outs[k], swOut, goodOutput)]]

\* new Node(mac)
NewNode(mac) ==
  [mac |-> mac, ip |-> Null, shortName |-> <<>>, longName |-> <<>>,
   status |-> <<>>, lastUpdate |-> 0, inPorts |-> <<>>, outPorts |-> <<>>]

\* The table holding the first new port alone.
updatePortsReplace(newPorts, existingPorts) ==
  IF newPorts = <<>> THEN <<>>
  ELSE (Head(newPorts).portNumber :> Head(newPorts))

\* Node.updatePorts(newPorts, existingPorts)
RECURSIVE updatePorts(_, _)
updatePorts(newPorts, existingPorts) ==
  IF newPorts = <<>> THEN existingPorts
  ELSE LET port == Head(newPorts) IN
       updatePorts(Tail(newPorts),
         IF isCompatibleWithLocalInterfaces(port.ip)
         THEN (port.portNumber :> port) @@ existingPorts
         ELSE existingPorts)

\* What JSON.stringify(this) compares before the untracked fields are set.
DidChangeAlways(old, new) == TRUE
DidChangeNamesOnly(old, new) ==
  <<old.shortName, old.longName>> # <<new.shortName, new.longName>>
DidChange(old, new) ==
  <<old.mac, old.ip, old.shortName, old.longName, old.status, old.lastUpdate,
    old.inPorts, old.outPorts>>
  # <<new.mac, new.ip, new.shortName, new.longName, new.status, new.lastUpdate,
      new.inPorts, new.outPorts>>

\* Node.updateFromArtPollReply(data) (data.mac is the node's mac here)
updateFromArtPollReply(node, data, t) ==
  LET tracked == [node EXCEPT !.ip = data.ip, !.longName = data.longName,
                              !.shortName = data.shortName,
                              !.inPorts = updatePorts(data.inPorts, node.inPorts),
                              !.outPorts = updatePorts(data.outPorts, node.outPorts)]
  IN [node |-> [tracked EXCEPT !.status = data.nodeReport, !.lastUpdate = t],
      didChange |-> DidChange(node, tracked)]

\* "Check if from myself"
FromMyselfByIp(apr) == IsLocalIp(apr.ip)
FromMyself(apr) ==
  IsLocalIp(apr.ip) /\ apr.shortName = sName /\ apr.longName = lName

\* case 0x2100. A datagram of 208 bytes or more that is shorter than the
\* format makes Unpack return undefined, and reading unpacked[15] throws.
ArtPollReplyBranch(msg, address, o) ==
  IF Len(msg) < 208 THEN Discard(o)
  ELSE IF Len(msg) < FormatSize(ArtPollReplyFormat)
  THEN /\ Outcome(<<>>, <<>>, "TypeError", o)
       /\ UNCHANGED <<senders, receivers, sobj, robj, now, txLast>>
       /\ UNCHANGED EngineVars
  ELSE LET apr == DecodeReply(msg, address) IN
       IF FromMyself(apr) THEN Discard(o)
       ELSE LET node == IF apr.mac \in DOMAIN nodes THEN nodes[apr.mac]
                        ELSE NewNode(apr.mac)
                upd == updateFromArtPollReply(node, apr, now)
            IN /\ nodes' = (apr.mac :> upd.node) @@ nodes
               /\ Outcome(<<>>,
                    IF upd.didChange
                    THEN << [type |-> "node-update", mac |-> apr.mac] >>
                    ELSE <<>>,
                    "none", o)
               /\ UNCHANGED <<errFunc, senders, receivers, sobj, robj, now, txLast,
                              artPollReplyCount, last_poll_reply, controllers,
                              socket_ready, replyAt>>

\* hartnet.dataParser(msg, rinfo), rinfo.address = address, rinfo.size = msg.length.
\* from is kept in op only: the local Sender that sent the datagram, 0 for a peer.
dataParser(from, msg, address) ==
  LET o == Op("datagram", from, <<msg, address>>) IN
  IF Len(msg) < 10 THEN Discard(o)
  ELSE IF SubSeq(msg, 1, 8) # ArtNetId \o <<0>> THEN Discard(o)
  ELSE IF IsNaN(OpCodeOf(msg)) \/ OpCodeOf(msg) = 0 THEN Discard(o)
  ELSE IF OpCodeOf(msg) = 20480 THEN ArtDmxBranch(msg, address, o)
  ELSE IF OpCodeOf(msg) = 8192 THEN ArtPollBranch(msg, address, o)
  ELSE IF OpCodeOf(msg) = 8448 THEN ArtPollReplyBranch(msg, address, o)
  ELSE Discard(o)

(***************************************************************************)
(* The sweep timer                                                         *)
(***************************************************************************)
\* setInterval(..., 5000), the 60000 ms of the controller test and the
\* default timeout of Node.isAlive.
SweepInterval == 5000
ControllerTimeout == 60000
NodeTimeout == 30000

\* new Date(last_poll).getTime(): the string holds the time to the second.
DateParse(str) == str

\* Node.isAlive(timeout = 30000) at time t
isAlive(node, t) == (t - node.lastUpdate) < NodeTimeout

\* The controller loop of the sweep at time t.
SweepControllers(ctrls, t) ==
  [k \in 1..Len(ctrls) |->
     IF (t - DateParse(ctrls[k].last_poll)) > ControllerTimeout
     THEN [ctrls[k] EXCEPT !.alive = FALSE]
     ELSE ctrls[k]]

\* The node loop of the sweep at time t: the nodes that are left.
SweepNodesKeepAll(nds, t) == nds
SweepNodes(nds, t) ==
  [mac \in {m \in DOMAIN nds : isAlive(nds[m], t)} |-> nds[mac]]

\* The time of the next firing of the sweep timer after t.
NextSweep(t) == t + SweepInterval - ((t - StartTime) % SweepInterval)

\* The clock reaches the next firing of the sweep timer, within limit ms of
\* the start, and the callback runs.
SweepTick(limit) ==
  /\ NextSweep(now) <= StartTime + limit
  /\ now' = NextSweep(now)
  /\ controllers' = SweepControllers(controllers, now')
  /\ nodes' = SweepNodes(nodes, now')
  /\ Outcome(<<>>, <<>>, "none", Op("sweep", 0, <<>>))
  /\ UNCHANGED <<errFunc, senders, receivers, sobj, robj, txLast, artPollReplyCount,
                 last_poll_reply, socket_ready, replyAt>>

(***************************************************************************)
(* Transport failures                                                      *)
(***************************************************************************)
\* hartnet.handleError(err): errFunc(err) if errFunc is a function, else
\* throw err. sink: the errors given to errFunc; err: the error thrown.
handleError(ef, err) ==
  IF ef THEN [sink |-> <<err>>, err |-> "none"]
  ELSE [sink |-> <<>>, err |-> err]

\* The calls of errFunc an operation made, as notifications.
SinkEvents(sink) ==
  [k \in 1..Len(sink) |-> [type |-> "errFunc", err |-> sink[k]]]

\* An 'error' event of listener4. Its listener is a function expression, so
\* its this is the socket that emits the event, and a socket has no
\* handleError: the call this.handleError(...) raises a TypeError, whatever
\* errFunc is.
ListenerError(err) ==
  /\ Outcome(<<>>, <<>>, "TypeError", Op("listenerError", 0, <<err>>))
  /\ UNCHANGED <<senders, receivers, sobj, robj, now, txLast>>
  /\ UNCHANGED EngineVars

\* The completion callback of socket.send() for one datagram handed to a
\* socket by the last operation: (err) => { if (err) handleError(err); ... },
\* handleError being the engine's in Sender.transmit (this.parent), in
\* ArtPoll and in ArtPollReply (this). err = "none": the send succeeded.
SendCallback(k, err) ==
  LET h == IF err = "none" THEN [sink |-> <<>>, err |-> "none"]
           ELSE handleError(errFunc, err)
  IN /\ k \in 1..Len(sent)
     /\ Outcome(<<>>, SinkEvents(h.sink), h.err,
                Op("sendCallback", sent[k].from, <<err, OpCodeOf(sent[k].msg)>>))
     /\ UNCHANGED <<senders, receivers, sobj, robj, now, txLast>>
     /\ UNCHANGED EngineVars

(***************************************************************************)
(* Initial state: a hartnet engine just constructed.                       *)
(***************************************************************************)
\* The fields the constructor sets whatever the options are.
Constructed ==
  /\ senders = <<>>
  /\ receivers = <<>>
  /\ sobj = <<>>
  /\ robj = <<>>
  /\ artPollReplyCount = 0
  /\ last_poll_reply = 0
  /\ controllers = <<>>
  /\ nodes = <<>>
  /\ socket_ready = FALSE
  /\ now = StartTime
  /\ sent = <<>>
  /\ events = <<>>
  /\ raised = "none"
  /\ op = Op("new", 0, <<>>)
  /\ txLast = <<>>
  /\ replyAt = -1

\* new hartnet() with the default options: no errFunc.
Init ==
  /\ Constructed
  /\ errFunc = FALSE

\* new hartnet({errFunc: ...}) with or without an error function.
InitErrFunc ==
  /\ Constructed
  /\ errFunc \in BOOLEAN

(***************************************************************************)
(* SpecSeq: one Sender, its timer, its socket and its channel API, with    *)
(* the sequence counter running through all of its 256 values.             *)
(***************************************************************************)
SeqSenderOptions ==
  { [net |-> 0, subnet |-> 0, universe |-> 1, to |-> IpBroadcastAll,
     broadcast |-> FALSE, base_refresh_interval |-> 1000] }

\* Senders whose socket has not been closed.
OpenSenders == {id \in 1..Len(sobj) : sobj[id].sock # "closed"}

NewSenderSeq ==
  /\ Len(sobj) = 0
  /\ \E opt \in SeqSenderOptions : newSender(opt)

SeqBound == \E id \in OpenSenders : SenderBound(id)
SeqTick == \E id \in OpenSenders : SenderTick(id)
SeqSetChannel ==
  \E id \in OpenSenders, c \in {0, 512}, v \in {0, 255} : setChannel(id, c, v)
SeqPrepChannel ==
  \E id \in OpenSenders, v \in {0, 255} : prepChannel(id, NumChannels - 1, v)
SeqFillChannels ==
  \E id \in OpenSenders : fillChannels(id, 0, NumChannels - 1, 255)
SeqBlackout == \E id \in OpenSenders : blackout(id)
SeqStop == \E id \in OpenSenders : stop(id)

NextSeqSpec ==
  \/ NewSenderSeq
  \/ SeqBound
  \/ SeqTick
  \/ SeqSetChannel
  \/ SeqPrepChannel
  \/ SeqFillChannels
  \/ SeqBlackout
  \/ SeqStop

SpecSeq == Init /\ [][NextSeqSpec]_vars

(***************************************************************************)
(* SpecStop: one Sender and its whole API, calls on the stopped Sender     *)
(* included; the Sender makes at most SeqCap transmit attempts.            *)
(***************************************************************************)
\* Senders that have attempted fewer than SeqCap transmissions.
FreshSenders == {id \in 1..Len(sobj) : sobj[id].ArtDmxSeq <= SeqCap}

StopNewSender ==
  /\ Len(sobj) = 0
  /\ \E opt \in SeqSenderOptions : newSender(opt)
StopBound == \E id \in 1..Len(sobj) : SenderBound(id)
StopTick == \E id \in FreshSenders : SenderTick(id)
StopSetChannel ==
  \E id \in FreshSenders, c \in {0, 512}, v \in {0, 255} : setChannel(id, c, v)
StopPrepChannel ==
  \E id \in 1..Len(sobj), v \in {0, 255} : prepChannel(id, NumChannels - 1, v)
StopFillChannels ==
  \E id \in FreshSenders : fillChannels(id, 0, NumChannels - 1, 255)
StopBlackout == \E id \in FreshSenders : blackout(id)
StopStop == \E id \in 1..Len(sobj) : stop(id)

NextStop ==
  \/ StopNewSender
  \/ StopBound
  \/ StopTick
  \/ StopSetChannel
  \/ StopPrepChannel
  \/ StopFillChannels
  \/ StopBlackout
  \/ StopStop

SpecStop == Init /\ [][NextStop]_vars

(***************************************************************************)
(* SpecDmx: Senders, Receivers and the ArtDmx datagrams between them. A    *)
(* datagram handled is one the previous operation sent (op.id names its    *)
(* Sender) or one a peer built with another net / universe (op.id = 0);    *)
(* its source address is any of SourceIps.                                 *)
(***************************************************************************)
DmxSenderOptions ==
  { [net |-> n, subnet |-> 0, universe |-> 1, to |-> IpBroadcastAll,
     broadcast |-> FALSE, base_refresh_interval |-> 1000] : n \in {0, 1} }

DmxReceiverOptions ==
  { [net |-> 0, subnet |-> 0, universe |-> 1, from |-> Null],
    [net |-> 1, subnet |-> 0, universe |-> 1, from |-> Null],
    [net |-> 0, subnet |-> 0, universe |-> 1,
     from |-> [ip |-> <<10, 0, 0, 5>>, bits |-> -1]],
    [net |-> 0, subnet |-> 0, universe |-> 2, from |-> Null] }

SourceIps == { <<10, 0, 0, 5>>, <<10, 0, 0, 6>> }

\* ArtDmx datagrams of a peer Sender.
PeerDmx ==
  { ArtDmxPacket(7, 2, 0, [i \in 1..NumChannels |-> 9]) }

DmxNewSender ==
  /\ Len(sobj) < MaxSenders
  /\ \E opt \in DmxSenderOptions : newSender(opt)
DmxNewReceiver ==
  /\ Len(robj) < MaxReceivers
  /\ \E opt \in DmxReceiverOptions : newReceiver(opt)
DmxBound == \E id \in 1..Len(sobj) : SenderBound(id)
DmxTick == \E id \in FreshSenders : SenderTick(id)
DmxSetChannel == \E id \in FreshSenders : setChannel(id, 0, 255)
DmxDeliverSent ==
  \E k \in 1..Len(sent), a \in SourceIps :
    dataParser(sent[k].from, sent[k].msg, a)
DmxDeliverPeer == \E m \in PeerDmx, a \in SourceIps : dataParser(0, m, a)

NextDmx ==
  \/ DmxNewSender
  \/ DmxNewReceiver
  \/ DmxBound
  \/ DmxTick
  \/ DmxSetChannel
  \/ DmxDeliverSent
  \/ DmxDeliverPeer

SpecDmx == Init /\ [][NextDmx]_vars

(***************************************************************************)
(* SpecGroup: up to MaxDevices Senders and Receivers are registered and    *)
(* ArtPollReply() is called. Devices sit on interface 1 only (to =         *)
(* 10.0.0.255) or on both interfaces, in subnet 0 or 1.                    *)
(***************************************************************************)
GroupSenderOptions ==
  { [net |-> 0, subnet |-> 0, universe |-> 1, to |-> <<10, 0, 0, 255>>,
     broadcast |-> FALSE, base_refresh_interval |-> 1000],
    [net |-> 0, subnet |-> 1, universe |-> 2, to |-> IpBroadcastAll,
     broadcast |-> FALSE, base_refresh_interval |-> 1000] }

GroupReceiverOptions ==
  { [net |-> 0, subnet |-> 0, universe |-> 3, from |-> Null] }

GroupNewSender ==
  /\ Len(sobj) + Len(robj) < MaxDevices
  /\ \E opt \in GroupSenderOptions : newSender(opt)
GroupNewReceiver ==
  /\ Len(sobj) + Len(robj) < MaxDevices
  /\ \E opt \in GroupReceiverOptions : newReceiver(opt)
GroupPollReply ==
  /\ artPollReplyCount < MaxReplies
  /\ ArtPollReply

NextGroup ==
  \/ GroupNewSender
  \/ GroupNewReceiver
  \/ GroupPollReply

SpecGroup == Init /\ [][NextGroup]_vars

(***************************************************************************)
(* SpecCount: ArtPollReply() called by the application and by the ArtPoll  *)
(* handler, the reply counter running through all of its 10000 values,     *)
(* with no device, one packet or several packets per call.                 *)
(***************************************************************************)
\* An ArtPoll datagram of a peer: version bytes, TalkToMe, priority.
PeerArtPoll(verHi, verLo, ttm, prio) ==
  ArtNetId \o <<0, 0, 32, verHi, verLo, ttm, prio>>

CountNewSender ==
  /\ Len(sobj) < MaxSenders
  /\ \E opt \in GroupSenderOptions : newSender(opt)
CountPollReply == ArtPollReply
CountArtPoll == dataParser(0, PeerArtPoll(0, 14, 0, 0), <<10, 0, 0, 5>>)

NextCount ==
  \/ CountNewSender
  \/ CountPollReply
  \/ CountArtPoll

SpecCount == Init /\ [][NextCount]_vars

(***************************************************************************)
(* SpecCtrl: ArtPoll datagrams of two controllers, well-formed and not,    *)
(* arriving over MaxSeconds seconds at an engine with or without a Sender. *)
(***************************************************************************)
\* ArtPoll datagrams the decoder accepts: TalkToMe 0x0e, 0x08 and 0.
GoodArtPolls ==
  { PeerArtPoll(0, 14, 14, 5), PeerArtPoll(0, 14, 8, 0), PeerArtPoll(0, 14, 0, 0) }
\* ArtPoll datagrams it drops: 13 bytes, and versions it reads as 0 and 13.
BadArtPolls ==
  { SubSeq(PeerArtPoll(0, 14, 14, 5), 1, 13), PeerArtPoll(0, 0, 14, 5),
    PeerArtPoll(13, 0, 14, 5) }

CtrlNewSender ==
  /\ Len(sobj) < MaxSenders
  /\ \E opt \in GroupSenderOptions : newSender(opt)
CtrlArtPoll ==
  /\ artPollReplyCount < MaxReplies
  /\ \E msg \in GoodArtPolls, a \in SourceIps : dataParser(0, msg, a)
CtrlBadArtPoll ==
  \E msg \in BadArtPolls, a \in SourceIps : dataParser(0, msg, a)
CtrlAdvance == Advance(1000, 1000 * MaxSeconds)

NextCtrl ==
  \/ CtrlNewSender
  \/ CtrlArtPoll
  \/ CtrlBadArtPoll
  \/ CtrlAdvance

SpecCtrl == Init /\ [][NextCtrl]_vars

(***************************************************************************)
(* SpecPoll: the poll timer of an engine built with poll_interval =        *)
(* PollInterval, its socket binding at some point, ArtPolls of a           *)
(* controller and pollReply() calls arriving at any millisecond.           *)
(***************************************************************************)
PollEngineBound == EngineBound
PollAdvance == Advance(1, MaxElapsed)
PollTimer == PollTick
PollArtPoll ==
  /\ artPollReplyCount < MaxReplies
  /\ dataParser(0, PeerArtPoll(0, 14, 0, 0), <<10, 0, 0, 5>>)
PollPollReply ==
  /\ artPollReplyCount < MaxReplies
  /\ ArtPollReply

NextPoll ==
  \/ PollEngineBound
  \/ PollAdvance
  \/ PollTimer
  \/ PollArtPoll
  \/ PollPollReply

SpecPoll == Init /\ [][NextPoll]_vars

(***************************************************************************)
(* SpecNode: ArtPollReply datagrams of peers, and those the engine itself  *)
(* broadcasts, arriving from a local address, from an address inside a     *)
(* local subnet and from one outside, over MaxSeconds seconds.             *)
(***************************************************************************)
\* An ArtPollReply datagram as a peer node packs it. The 4-byte fields are
\* given in wire order.
PeerReply(ip, mac, short, long, report, numPorts, types, gIn, gOut, swIn, swOut, bindIndex) ==
  Pack(ArtPollReplyFormat,
       << ArtNetId, 0, 33 >> \o ip
         \o << OptPort, 1, 0, 0, 0, 0, 208, 0, short, long, report, numPorts >>
         \o types \o gIn \o gOut \o swIn \o swOut
         \o << 0, 0, 0, 0 >> \o mac \o ip \o << 1, 14, bindIndex >>)

Mac1 == <<2, 0, 0, 0, 0, 17>>
Mac2 == <<2, 0, 0, 0, 0, 18>>
None4 == <<0, 0, 0, 0>>

\* Node 1 with one output port (universe 3), good or not, under two short
\* names and two reports; node 1 carrying the names of this engine; node 2
\* with one input port (universe 5) in its second packet.
ReplyA == PeerReply(<<10, 0, 0, 7>>, Mac1, <<65>>, <<65, 76>>, <<114, 49>>, 1,
                    <<0, 0, 0, 64>>, None4, <<0, 0, 0, 1>>, None4, <<48, 0, 0, 0>>, 0)
ReplyB == PeerReply(<<10, 0, 0, 7>>, Mac1, <<66>>, <<65, 76>>, <<114, 49>>, 1,
                    <<0, 0, 0, 64>>, None4, <<0, 0, 0, 1>>, None4, <<48, 0, 0, 0>>, 0)
ReplyC == PeerReply(<<10, 0, 0, 7>>, Mac1, <<65>>, <<65, 76>>, <<114, 50>>, 1,
                    <<0, 0, 0, 64>>, None4, None4, None4, <<48, 0, 0, 0>>, 0)
ReplyNamedAsMe == PeerReply(<<10, 0, 0, 7>>, Mac1, sName, lName, <<114, 49>>, 0,
                    None4, None4, None4, None4, None4, 0)
ReplyIn == PeerReply(<<10, 0, 0, 8>>, Mac2, <<67>>, <<67, 76>>, <<114, 49>>, 1,
                    <<0, 0, 0, 128>>, <<0, 0, 0, 1>>, None4, <<80, 0, 0, 0>>, None4, 1)
\* The datagrams of peers and where they come from: this host, a local
\* subnet, elsewhere.
PeerArrivals ==
  { <<ReplyA, <<10, 0, 0, 1>>>>, <<ReplyA, <<10, 0, 0, 7>>>>,
    <<ReplyA, <<10, 9, 9, 9>>>>, <<ReplyB, <<10, 0, 0, 7>>>>,
    <<ReplyC, <<10, 0, 0, 7>>>>, <<ReplyNamedAsMe, <<10, 0, 0, 1>>>>,
    <<ReplyNamedAsMe, <<10, 0, 0, 7>>>>, <<ReplyIn, <<10, 0, 0, 8>>>> }

NodeNewSender ==
  /\ Len(sobj) < MaxSenders
  /\ newSender([net |-> 0, subnet |-> 0, universe |-> 1, to |-> <<10, 0, 0, 255>>,
                broadcast |-> FALSE, base_refresh_interval |-> 1000])
\* A broadcast ArtPollReply of this engine comes back from its interface.
NodeOwnReply ==
  \E k \in 1..Len(PollReplyPackets) :
    dataParser(0, PollReplyPackets[k].msg, SubSeq(PollReplyPackets[k].msg, 11, 14))
NodePeerReply ==
  \E arrival \in PeerArrivals : dataParser(0, arrival[1], arrival[2])
\* The clock moves on between two datagrams; nothing is handled.
NodePassTime ==
  /\ now + 1000 <= StartTime + 1000 * MaxSeconds
  /\ now' = now + 1000
  /\ UNCHANGED <<senders, receivers, sobj, robj, sent, events, raised, op, txLast>>
  /\ UNCHANGED EngineVars

NextNode ==
  \/ NodeNewSender
  \/ NodeOwnReply
  \/ NodePeerReply
  \/ NodePassTime

SpecNode == Init /\ [][NextNode]_vars

(***************************************************************************)
(* SpecSweep: ArtPolls of two controllers and ArtPollReplies of two nodes  *)
(* arrive during the first TrafficWindow ms, every ArrivalStep ms or right *)
(* after a sweep; the sweep timer fires every 5 s until SweepHorizon ms.   *)
(* SpecSweepLive adds that the timer does fire.                            *)
(***************************************************************************)
SweepArtPoll ==
  /\ now <= StartTime + TrafficWindow
  /\ artPollReplyCount < MaxReplies
  /\ \E a \in SourceIps : dataParser(0, PeerArtPoll(0, 14, 0, 0), a)
SweepPeerReply ==
  /\ now <= StartTime + TrafficWindow
  /\ \E arrival \in { <<ReplyA, <<10, 0, 0, 7>>>>, <<ReplyIn, <<10, 0, 0, 8>>>> } :
       dataParser(0, arrival[1], arrival[2])
\* Time passes without reaching the next firing of the sweep timer.
SweepAdvance ==
  /\ now + ArrivalStep < NextSweep(now)
  /\ Advance(ArrivalStep, TrafficWindow)
SweepTimer == SweepTick(SweepHorizon)

NextSweepSpec ==
  \/ SweepArtPoll
  \/ SweepPeerReply
  \/ SweepAdvance
  \/ SweepTimer

SpecSweep == Init /\ [][NextSweepSpec]_vars
SpecSweepLive == SpecSweep /\ WF_vars(SweepTimer)

(***************************************************************************)
(* SpecPort: newSender and newReceiver called with net, subnet and         *)
(* universe that need no carry, that carry into subnet and into net, that  *)
(* reach 32767 and pass it, and with a net beyond 23 bits.                 *)
(***************************************************************************)
\* <<net, subnet, universe>>
PortInputs ==
  { <<0, 0, 0>>, <<1, 2, 3>>, <<0, 0, 16>>, <<0, 15, 16>>, <<0, 0, 300>>,
    <<127, 15, 15>>, <<127, 15, 16>>, <<128, 0, 0>>, <<0, 2048, 0>>,
    <<8388608, 0, 0>>, <<16777216, 0, 5>> }

PortNewSender ==
  /\ Len(sobj) + Len(robj) < MaxReceivers
  /\ \E i \in PortInputs :
       newSender([net |-> i[1], subnet |-> i[2], universe |-> i[3],
                  to |-> IpBroadcastAll, broadcast |-> FALSE,
                  base_refresh_interval |-> 1000])
PortNewReceiver ==
  /\ Len(sobj) + Len(robj) < MaxReceivers
  /\ \E i \in PortInputs :
       newReceiver([net |-> i[1], subnet |-> i[2], universe |-> i[3],
                    from |-> Null])

NextPort ==
  \/ PortNewSender
  \/ PortNewReceiver

SpecPort == Init /\ [][NextPort]_vars

(***************************************************************************)
(* SpecDiscard: well-formed ArtDmx, ArtPoll and ArtPollReply datagrams     *)
(* fill the receivers and the registries, and datagrams that are too       *)
(* short, carry another identifier, OpCode zero or an OpCode the engine    *)
(* does not implement arrive in between, and so do ArtDmx datagrams        *)
(* shorter than their header.  The one Receiver listens on universe 1 or   *)
(* has the port address -1 that net 16777215, subnet 15, universe 15 give. *)
(***************************************************************************)
GoodDmx == ArtDmxPacket(7, 1, 0, [i \in 1..NumChannels |-> 9])
GoodPoll == PeerArtPoll(0, 14, 0, 0)

\* msg with bytes lo, hi at offsets 8 and 9 (the OpCode).
WithOpCode(msg, lo, hi) == [msg EXCEPT ![9] = lo, ![10] = hi]

\* 9 bytes; 'Brt-Net'; a non-zero byte after 'Art-Net'; OpCode 0; OpCodes
\* 0x5001, 0x0050, 0x2001, 0x6000, 0x2200 over the bodies of datagrams that
\* would be handled under their own OpCode.
JunkDatagrams ==
  { SubSeq(GoodDmx, 1, 9), [GoodDmx EXCEPT ![1] = 66], [GoodPoll EXCEPT ![8] = 1],
    WithOpCode(GoodDmx, 0, 0), WithOpCode(GoodPoll, 0, 0),
    WithOpCode(GoodDmx, 1, 80), WithOpCode(GoodDmx, 80, 0),
    WithOpCode(GoodPoll, 1, 32), WithOpCode(GoodPoll, 0, 96),
    WithOpCode(ReplyA, 0, 34) }

DiscardNewSender ==
  /\ Len(sobj) = 0
  /\ newSender([net |-> 0, subnet |-> 0, universe |-> 1, to |-> <<10, 0, 0, 255>>,
                broadcast |-> FALSE, base_refresh_interval |-> 1000])
DiscardReceivers ==
  { [net |-> 0, subnet |-> 0, universe |-> 1, from |-> Null],
    [net |-> 16777215, subnet |-> 15, universe |-> 15, from |-> Null] }
DiscardNewReceiver ==
  /\ Len(robj) = 0
  /\ \E options \in DiscardReceivers : newReceiver(options)
DiscardGoodDmx == dataParser(0, GoodDmx, <<10, 0, 0, 5>>)
DiscardGoodPoll ==
  /\ artPollReplyCount < MaxReplies
  /\ dataParser(0, GoodPoll, <<10, 0, 0, 5>>)
DiscardGoodReply == dataParser(0, ReplyA, <<10, 0, 0, 7>>)
DiscardJunk == \E msg \in JunkDatagrams : dataParser(0, msg, <<10, 0, 0, 5>>)
\* ArtDmx datagrams cut to 17 and to 15 bytes (the header alone is 18), and
\* to 14, 12 and 10 bytes, which have no byte at offset 14.
ShortDmxSizes == {10, 12, 14, 15, 17}
DiscardShortDmx ==
  \E n \in ShortDmxSizes : dataParser(0, SubSeq(GoodDmx, 1, n), <<10, 0, 0, 5>>)
DiscardAdvance == Advance(1000, 1000 * MaxSeconds)

NextDiscard ==
  \/ DiscardNewSender
  \/ DiscardNewReceiver
  \/ DiscardGoodDmx
  \/ DiscardGoodPoll
  \/ DiscardGoodReply
  \/ DiscardJunk
  \/ DiscardShortDmx
  \/ DiscardAdvance

SpecDiscard == Init /\ [][NextDiscard]_vars

(***************************************************************************)
(* SpecVersion: ArtPoll datagrams with every protocol version 0 .. 15 in   *)
(* the big-endian field at offsets 10-11 (as ArtPoll() packs its own 14),  *)
(* with versions that fill the high byte, and cut to 13 and to 10 bytes.   *)
(***************************************************************************)
\* <<byte at offset 10, byte at offset 11>>
VersionBytes == { <<0, v>> : v \in 0..15 } \cup { <<13, 0>>, <<14, 0>>, <<1, 0>> }

VersionNewSender ==
  /\ Len(sobj) < MaxSenders
  /\ newSender([net |-> 0, subnet |-> 0, universe |-> 1, to |-> <<10, 0, 0, 255>>,
                broadcast |-> FALSE, base_refresh_interval |-> 1000])
VersionArtPoll ==
  /\ artPollReplyCount < MaxReplies
  /\ \E v \in VersionBytes, a \in SourceIps :
       dataParser(0, PeerArtPoll(v[1], v[2], 14, 5), a)
VersionShortArtPoll ==
  \E n \in {10, 13}, a \in SourceIps :
    dataParser(0, SubSeq(PeerArtPoll(0, 14, 14, 5), 1, n), a)

NextVersion ==
  \/ VersionNewSender
  \/ VersionArtPoll
  \/ VersionShortArtPoll

SpecVersion == Init /\ [][NextVersion]_vars

(***************************************************************************)
(* SpecShortReply: ArtPollReply datagrams of peers, whole (214 bytes) and  *)
(* cut to 100, 207, 208 and 213 bytes, over MaxSeconds seconds.            *)
(***************************************************************************)
ShortReplyWhole ==
  \E arrival \in PeerArrivals : dataParser(0, arrival[1], arrival[2])
ShortReplyCut ==
  \E n \in {100, 207, 208, 213} :
    dataParser(0, SubSeq(ReplyB, 1, n), <<10, 0, 0, 7>>)
ShortReplyPassTime == NodePassTime

NextShortReply ==
  \/ ShortReplyWhole
  \/ ShortReplyCut
  \/ ShortReplyPassTime

SpecShortReply == Init /\ [][NextShortReply]_vars

(***************************************************************************)
(* SpecError: an engine constructed with or without errFunc, one Sender,   *)
(* the poll timer and pollReply(), with failures of the listening socket   *)
(* and of the sends.                                                       *)
(***************************************************************************)
\* The errors a socket reports in the model.
SocketErrors == {"EADDRINUSE", "ENETUNREACH"}

ErrNewSender ==
  /\ Len(sobj) = 0
  /\ \E opt \in SeqSenderOptions : newSender(opt)
ErrSenderBound == \E id \in 1..Len(sobj) : SenderBound(id)
ErrEngineBound == EngineBound
ErrTick == \E id \in FreshSenders : SenderTick(id)
ErrAdvance == Advance(1, MaxElapsed)
ErrPollTimer == PollTick
ErrPollReply ==
  /\ artPollReplyCount < MaxReplies
  /\ ArtPollReply
ErrSendCallback ==
  \E k \in 1..Len(sent), err \in {"none"} \cup SocketErrors : SendCallback(k, err)
ErrListenerError == \E err \in SocketErrors : ListenerError(err)

NextError ==
  \/ ErrNewSender
  \/ ErrSenderBound
  \/ ErrEngineBound
  \/ ErrTick
  \/ ErrAdvance
  \/ ErrPollTimer
  \/ ErrPollReply
  \/ ErrSendCallback
  \/ ErrListenerError

SpecError == InitErrFunc /\ [][NextError]_vars

(***************************************************************************)
(* SpecChannel: one Sender and its channel API, called with channels and   *)
(* values inside and outside their ranges.                                 *)
(***************************************************************************)
\* Channels: the two ends of the model's buffer, and the first integers
\* outside 0..511.
ChannelInputs == {-1, 0, NumChannels - 1, 512}
\* Values: the two ends of 0..255, one inside, and the first outside.
ValueInputs == {-1, 0, 7, 255, 256}

ChannelNewSender ==
  /\ Len(sobj) = 0
  /\ \E opt \in SeqSenderOptions : newSender(opt)
ChannelBound == \E id \in 1..Len(sobj) : SenderBound(id)
ChannelTick == \E id \in FreshSenders : SenderTick(id)
ChannelSetChannel ==
  \E id \in FreshSenders, c \in ChannelInputs, v \in ValueInputs :
    setChannel(id, c, v)
ChannelPrepChannel ==
  \E id \in FreshSenders, c \in ChannelInputs, v \in ValueInputs :
    prepChannel(id, c, v)
ChannelFillChannels ==
  \E id \in FreshSenders, a \in ChannelInputs, b \in ChannelInputs,
     v \in ValueInputs :
    fillChannels(id, a, b, v)

NextChannel ==
  \/ ChannelNewSender
  \/ ChannelBound
  \/ ChannelTick
  \/ ChannelSetChannel
  \/ ChannelPrepChannel
  \/ ChannelFillChannels

SpecChannel == Init /\ [][NextChannel]_vars

(***************************************************************************)
(* SpecRoute: Senders and Receivers whose address filter matches a local   *)
(* interface or none, the Sender's timer, and ArtDmx datagrams from        *)
(* sources inside and outside the filters.                                 *)
(***************************************************************************)
\* to: the broadcast address of the first interface; an address on no local
\* network.
RouteSenderOptions ==
  { [net |-> 0, subnet |-> 0, universe |-> 1, to |-> t,
     broadcast |-> FALSE, base_refresh_interval |-> 1000] :
    t \in {<<10, 0, 0, 255>>, <<192, 168, 77, 7>>} }

\* from: none; the network of the first interface; a network and a single
\* address that hold no local interface.
RouteReceiverOptions ==
  { [net |-> 0, subnet |-> 0, universe |-> 1, from |-> f] :
    f \in {Null, [ip |-> <<10, 0, 0, 0>>, bits |-> 24],
           [ip |-> <<192, 168, 77, 0>>, bits |-> 24],
           [ip |-> <<192, 168, 77, 9>>, bits |-> -1]} }

RouteSources == {<<10, 0, 0, 5>>, <<192, 168, 77, 9>>, <<192, 168, 78, 1>>}

RouteNewSender ==
  /\ Len(sobj) < MaxSenders
  /\ \E opt \in RouteSenderOptions : newSender(opt)
RouteNewReceiver ==
  /\ Len(robj) < MaxReceivers
  /\ \E opt \in RouteReceiverOptions : newReceiver(opt)
RouteBound == \E id \in 1..Len(sobj) : SenderBound(id)
RouteTick == \E id \in FreshSenders : SenderTick(id)
RouteArtDmx == \E a \in RouteSources : dataParser(0, GoodDmx, a)

NextRoute ==
  \/ RouteNewSender
  \/ RouteNewReceiver
  \/ RouteBound
  \/ RouteTick
  \/ RouteArtDmx

SpecRoute == Init /\ [][NextRoute]_vars

(***************************************************************************)
(* SpecChange: ArtPollReply datagrams of peers that differ from one        *)
(* another in one field (short name, report, good flag of a port, source   *)
(* address), over MaxSeconds seconds.                                      *)
(***************************************************************************)
\* ReplyA with another report, and ReplyA with its port not good.
ReplyReport == PeerReply(<<10, 0, 0, 7>>, Mac1, <<65>>, <<65, 76>>, <<114, 50>>, 1,
                    <<0, 0, 0, 64>>, None4, <<0, 0, 0, 1>>, None4, <<48, 0, 0, 0>>, 0)
ReplyNotGood == PeerReply(<<10, 0, 0, 7>>, Mac1, <<65>>, <<65, 76>>, <<114, 49>>, 1,
                    <<0, 0, 0, 64>>, None4, None4, None4, <<48, 0, 0, 0>>, 0)

ChangeArrivals ==
  { <<ReplyA, <<10, 0, 0, 7>>>>, <<ReplyA, <<10, 0, 0, 9>>>>,
    <<ReplyA, <<10, 9, 9, 9>>>>, <<ReplyB, <<10, 0, 0, 7>>>>,
    <<ReplyReport, <<10, 0, 0, 7>>>>, <<ReplyNotGood, <<10, 0, 0, 7>>>>,
    <<ReplyIn, <<10, 0, 0, 8>>>> }

ChangePeerReply ==
  \E arrival \in ChangeArrivals : dataParser(0, arrival[1], arrival[2])
ChangePassTime == NodePassTime

NextChange ==
  \/ ChangePeerReply
  \/ ChangePassTime

SpecChange == Init /\ [][NextChange]_vars

(***************************************************************************)
(* SpecAdvert: Senders and Receivers that resolve to no, one or both       *)
(* interfaces are registered, Senders are stopped, and ArtPollReply() is   *)
(* called.                                                                 *)
(***************************************************************************)
\* to: an address on no local network, the broadcast address of the first
\* interface, the limited broadcast address.
AdvertSenderOptions ==
  { [net |-> 0, subnet |-> 0, universe |-> 1, to |-> t,
     broadcast |-> FALSE, base_refresh_interval |-> 1000] :
    t \in {<<192, 168, 77, 7>>, <<10, 0, 0, 255>>, IpBroadcastAll} }

\* from: a single address on no local network, the network of the first
\* interface, none (every address).
AdvertReceiverOptions ==
  { [net |-> 0, subnet |-> 1, universe |-> 3, from |-> f] :
    f \in {[ip |-> <<192, 168, 77, 9>>, bits |-> -1],
           [ip |-> <<10, 0, 0, 0>>, bits |-> 24], Null} }

AdvertNewSender ==
  /\ Len(sobj) + Len(robj) < MaxAdvertised
  /\ \E opt \in AdvertSenderOptions : newSender(opt)
AdvertNewReceiver ==
  /\ Len(sobj) + Len(robj) < MaxAdvertised
  /\ \E opt \in AdvertReceiverOptions : newReceiver(opt)
AdvertStop == \E id \in OpenSenders : stop(id)
AdvertPollReply ==
  /\ artPollReplyCount < MaxReplies
  /\ ArtPollReply

NextAdvert ==
  \/ AdvertNewSender
  \/ AdvertNewReceiver
  \/ AdvertStop
  \/ AdvertPollReply

SpecAdvert == Init /\ [][NextAdvert]_vars

(***************************************************************************)
(* SpecPorts: ArtPollReply datagrams of one peer with two ports, one port, *)
(* no port, the other direction, another bindIndex and other source        *)
(* addresses, a second peer, and the sweep timer.                          *)
(***************************************************************************)
\* Node 1 with an output port in slot 0 and an input port in slot 1; with
\* no port; with an input port in slot 0; with its output port under
\* bindIndex 1.
ReplyTwo == PeerReply(<<10, 0, 0, 7>>, Mac1, <<65>>, <<65, 76>>, <<114, 49>>, 2,
                    <<0, 0, 128, 64>>, <<0, 0, 0, 2>>, <<0, 0, 0, 1>>,
                    <<6, 0, 0, 0>>, <<48, 0, 0, 0>>, 0)
ReplyNone == PeerReply(<<10, 0, 0, 7>>, Mac1, <<65>>, <<65, 76>>, <<114, 49>>, 0,
                    None4, None4, None4, None4, None4, 0)
ReplyOtherWay == PeerReply(<<10, 0, 0, 7>>, Mac1, <<65>>, <<65, 76>>, <<114, 49>>, 1,
                    <<0, 0, 0, 128>>, <<0, 0, 0, 1>>, None4, <<64, 0, 0, 0>>, None4, 0)
ReplyBind1 == PeerReply(<<10, 0, 0, 7>>, Mac1, <<65>>, <<65, 76>>, <<114, 49>>, 1,
                    <<0, 0, 0, 64>>, None4, <<0, 0, 0, 1>>, None4, <<48, 0, 0, 0>>, 1)

PortsArrivals ==
  { <<ReplyTwo, <<10, 0, 0, 7>>>>, <<ReplyTwo, <<10, 0, 1, 7>>>>,
    <<ReplyA, <<10, 0, 0, 7>>>>, <<ReplyA, <<10, 9, 9, 9>>>>,
    <<ReplyNone, <<10, 0, 0, 7>>>>, <<ReplyOtherWay, <<10, 0, 0, 7>>>>,
    <<ReplyBind1, <<10, 0, 0, 7>>>>, <<ReplyIn, <<10, 0, 0, 8>>>> }

PortsPeerReply ==
  /\ now <= StartTime + TrafficWindow
  /\ \E arrival \in PortsArrivals : dataParser(0, arrival[1], arrival[2])
PortsSweep == SweepTick(SweepHorizon)

NextPorts ==
  \/ PortsPeerReply
  \/ PortsSweep

SpecPorts == Init /\ [][NextPorts]_vars

(***************************************************************************)
(* Properties                                                              *)
(***************************************************************************)
\* The last operation handled a well-formed ArtDmx datagram (18 bytes or more).
HandledArtDmx ==
  /\ op.kind = "datagram"
  /\ Len(op.args[1]) >= 18
  /\ SubSeq(op.args[1], 1, 8) = ArtNetId \o <<0>>
  /\ OpCodeOf(op.args[1]) = 20480

\* Data notifications the last operation emitted for Receiver id.
DataEvents(id) ==
  {k \in 1..Len(events) : events[k].type = "data" /\ events[k].id = id}

\* The Sender was stopped: stop() is the only way out of hartnet.senders.
Stopped(id) == \A k \in 1..Len(senders) : senders[k] # id

\* C1: an ArtDmx datagram is delivered to a registered Receiver exactly when
\* its byte at offset 14 equals the low byte of the Receiver's port address and
\* its source address lies inside the Receiver's filter, whatever the
\* Receiver's net.
C1_DeliveredIffLowByteAndFilter ==
  HandledArtDmx =>
    \A k \in 1..Len(receivers) :
      LET r == robj[receivers[k]] IN
      (DataEvents(receivers[k]) # {})
        <=> /\ op.args[1][15] = r.port_address % 256
            /\ Contains(r.ipnet, op.args[2])

\* C2: the ArtDmx packets a Sender transmits carry 1, 2, ..., 255, 0, 1, ...:
\* each transmitted sequence byte is the previous transmitted one plus 1 modulo
\* 256 (1 for the first), at most one packet per operation; and a transmit
\* attempt while the socket is not bound sends nothing and leaves the counter.
C2_SequenceAdvancesByOne ==
  [][\A id \in 1..Len(sobj) :
       LET pk == SelectSeq(sent', LAMBDA x : x.from = id) IN
       /\ Len(pk) <= 1
       /\ pk # <<>> =>
            pk[1].msg[13] = IF txLast[id] = -1 THEN 1 ELSE (txLast[id] + 1) % 256
       /\ ( /\ ~sobj[id].socket_ready
            /\ op'.id = id
            /\ op'.kind \in {"senderTick", "setChannel", "fillChannels", "blackout"} )
          => /\ pk = <<>>
             /\ sobj'[id].ArtDmxSeq = sobj[id].ArtDmxSeq]_vars

\* C2 witness: the sequence byte wrapped, a packet with sequence 0 was transmitted.
C2_Witness ==
  \E k \in 1..Len(sent) : sent[k].from >= 1 /\ sent[k].msg[13] = 0

\* C3: no operation that follows stop() hands a packet of the stopped Sender to
\* its socket: no timer tick, no late bind completion, no channel call.
C3_NoTransmitAfterStop ==
  [][\A id \in 1..Len(sobj) :
       Stopped(id) => \A k \in 1..Len(sent') : sent'[k].from # id]_vars

\* C3 witness: setChannel was called on a stopped Sender whose socket had been bound.
C3_Witness ==
  \E id \in 1..Len(sobj) :
    /\ Stopped(id)
    /\ sobj[id].socket_ready
    /\ op.kind = "setChannel" /\ op.id = id /\ op.args = <<0, 255>>

\* C4: a datagram a Sender just transmitted carries the Sender's sequence,
\* subnet/universe byte and net at offsets 12, 14 and 15, and every Receiver
\* that accepts it holds the Sender's buffer afterwards and got exactly one
\* data notification, carrying that buffer.
C4_DmxRoundTrip ==
  (op.kind = "datagram" /\ op.id >= 1) =>
    LET o == sobj[op.id]
        msg == op.args[1]
    IN /\ msg[13] = (o.ArtDmxSeq + 255) % 256
       /\ msg[15] = o.port_subuni
       /\ msg[16] = o.net
       /\ \A k \in 1..Len(receivers) :
            acceptPacket(robj[receivers[k]], msg[15], op.args[2]) =>
              /\ robj[receivers[k]].values = o.values
              /\ Len(robj[receivers[k]].values) = NumChannels
              /\ Cardinality(DataEvents(receivers[k])) = 1
              /\ \A j \in DataEvents(receivers[k]) : events[j].data = o.values

\* C4 witness: a transmitted buffer holding 255 reached a Receiver.
C4_Witness ==
  /\ op.kind = "datagram" /\ op.id >= 1
  /\ sobj[op.id].values[1] = 255
  /\ \E k \in 1..Len(receivers) :
       /\ DataEvents(receivers[k]) # {}
       /\ robj[receivers[k]].values = sobj[op.id].values

\* The last operation called ArtPollReply(): the application did, or the
\* handler of an ArtPoll datagram that passed the size and version checks.
IsArtPollDatagram(o) ==
  /\ o.kind = "datagram"
  /\ Len(o.args[1]) >= 10
  /\ SubSeq(o.args[1], 1, 8) = ArtNetId \o <<0>>
  /\ OpCodeOf(o.args[1]) = 8192
RepliedBy(o) ==
  o.kind = "pollReply" \/ (IsArtPollDatagram(o) /\ ArtPollAccepted(o.args[1]))

\* The groups (interface, net, subnet) that hold a local device, and the
\* devices of a group in registry order (Senders first).
DeviceKeys ==
  {<<k, Dev(LocalDevices[j]).net, Dev(LocalDevices[j]).subnet>> :
     <<j, k>> \in {jk \in (1..Len(LocalDevices)) \X (1..Len(INTERFACES)) :
                    \E x \in 1..Len(Dev(LocalDevices[jk[1]]).interfaces) :
                      Dev(LocalDevices[jk[1]]).interfaces[x] = jk[2]}}
Members(key) ==
  SelectSeq(LocalDevices,
    LAMBDA d : /\ \E x \in 1..Len(Dev(d).interfaces) : Dev(d).interfaces[x] = key[1]
               /\ Dev(d).net = key[2]
               /\ Dev(d).subnet = key[3])

\* Packet p is chunk c (0-based) of the group key: it goes to the broadcast
\* address of the interface, carries the interface address, bindIndex c and
\* the port count, and its slot j describes device 4c + j of the group: 0x40
\* for a Sender with its universe in nibble j of SwOut, 0x80 for a Receiver
\* with its universe in nibble j of SwIn; the slots past the count are empty.
DescribesChunk(p, key, c) ==
  LET m == Members(key)
      n == Min(4, Len(m) - 4 * c)
      nib(lo, hi, j) == IF j < 2 THEN (p.msg[lo] \div Pow2(4 * j)) % 16
                        ELSE (p.msg[hi] \div Pow2(4 * (j - 2))) % 16
  IN /\ p.to = Broadcast(INTERFACES[key[1]].netmask)
     /\ SubSeq(p.msg, 11, 14) = INTERFACES[key[1]].ip
     /\ p.msg[214] = c
     /\ n \in 1..4
     /\ p.msg[173] * 256 + p.msg[174] = n
     /\ \A j \in 0..3 :
          IF j < n
          THEN LET d == m[4 * c + j + 1] IN
               IF d.kind = "S"
               THEN /\ p.msg[178 - j] = 64
                    /\ nib(191, 192, j) = Dev(d).universe
                    /\ nib(187, 188, j) = 0
               ELSE /\ p.msg[178 - j] = 128
                    /\ nib(187, 188, j) = Dev(d).universe
                    /\ nib(191, 192, j) = 0
          ELSE /\ p.msg[178 - j] = 0
               /\ nib(191, 192, j) = 0
               /\ nib(187, 188, j) = 0

\* The packets of a group, chunk after chunk: ceil(n / 4) of them.
RECURSIVE DescribesGroup(_, _, _)
DescribesGroup(pk, key, c) ==
  IF 4 * c >= Len(Members(key)) THEN pk = <<>>
  ELSE /\ pk # <<>>
       /\ DescribesChunk(Head(pk), key, c)
       /\ DescribesGroup(Tail(pk), key, c + 1)

\* sent is the packets of the groups in the order keys, group after group.
RECURSIVE DescribesGroups(_, _)
DescribesGroups(pk, keys) ==
  IF keys = <<>> THEN pk = <<>>
  ELSE LET n == (Len(Members(Head(keys))) + 3) \div 4 IN
       /\ Len(pk) >= n
       /\ DescribesGroup(SubSeq(pk, 1, n), Head(keys), 0)
       /\ DescribesGroups(SubSeq(pk, n + 1, Len(pk)), Tail(keys))

\* C5: one pollReply() call sends, group by group, exactly ceil(n/4) packets
\* for a group of n devices, with bindIndex 0, 1, ... in that order, packet i
\* describing devices 4i .. min(4i+3, n-1) of the group, each to the broadcast
\* address of the group's interface, and nothing else.
C5_ChunksOfFourPerGroup ==
  RepliedBy(op) =>
    \E keys \in [1..Cardinality(DeviceKeys) -> DeviceKeys] :
      /\ \A a, b \in 1..Cardinality(DeviceKeys) : a # b => keys[a] # keys[b]
      /\ DescribesGroups(sent, keys)

\* C5 witness: six Senders in one group gave two packets, bindIndex 0 and 1,
\* describing 4 and 2 ports.
C5_Witness ==
  /\ op.kind = "pollReply"
  /\ Len(senders) = 6 /\ receivers = <<>>
  /\ Cardinality(DeviceKeys) = 1
  /\ Len(sent) = 2
  /\ sent[1].msg[214] = 0 /\ sent[1].msg[174] = 4
  /\ sent[2].msg[214] = 1 /\ sent[2].msg[174] = 2

\* C6: every pollReply() invocation advances the reply counter by exactly 1
\* modulo 10000 and sets the last-reply timestamp to the time of the call,
\* however many packets it sends; the counter stays within 0..9999.
C6_CounterAdvancesOncePerCall ==
  /\ [](artPollReplyCount \in 0..9999)
  /\ [][RepliedBy(op') =>
          /\ artPollReplyCount' = (artPollReplyCount + 1) % 10000
          /\ last_poll_reply' = now]_vars

\* C6 witness: the counter wrapped from 9999 to 0 in a call that sent several packets.
C6_Witness ==
  /\ op.kind = "pollReply"
  /\ artPollReplyCount = 0
  /\ Len(sent) >= 2

\* The records of a registry other than the one of ip, in order.
OtherControllers(ctrls, ip) == SelectSeq(ctrls, LAMBDA c : c.ip # ip)

\* C7: the controller registry never holds two records with the same IP, and
\* after a valid ArtPoll from x is handled it holds exactly one record for x,
\* all of whose fields (alive, the three TalkToMe flags, priority, last-poll
\* time) come from this packet, the other records are untouched, and
\* pollReply() ran exactly once (one counter step, one round of packets).
C7_OneFreshRecordPerController ==
  /\ [](\A a, b \in 1..Len(controllers) :
          controllers[a].ip = controllers[b].ip => a = b)
  /\ [][(IsArtPollDatagram(op') /\ ArtPollAccepted(op'.args[1])) =>
          LET msg == op'.args[1]
              x == op'.args[2]
              ttm == msg[13]
          IN /\ Cardinality({k \in 1..Len(controllers') : controllers'[k].ip = x}) = 1
             /\ \A k \in 1..Len(controllers') :
                  controllers'[k].ip = x =>
                    controllers'[k] =
                      [ip |-> x, family |-> "IPv4",
                       last_poll |-> (now \div 1000) * 1000, alive |-> TRUE,
                       diagnostic_unicast |-> (ttm \div 8) % 2 = 1,
                       diagnostic_enable |-> (ttm \div 4) % 2 = 1,
                       unilateral |-> (ttm \div 2) % 2 = 1,
                       priority |-> msg[14]]
             /\ OtherControllers(controllers', x) = OtherControllers(controllers, x)
             /\ artPollReplyCount' = (artPollReplyCount + 1) % 10000
             /\ sent' = PollReplyPackets]_vars

\* C7 witness: a controller polled again, a second later and with other
\* TalkToMe flags and priority, after another controller had registered.
C7_Witness ==
  /\ IsArtPollDatagram(op) /\ ArtPollAccepted(op.args[1])
  /\ Len(controllers) = 2
  /\ controllers[1].ip = op.args[2]
  /\ controllers[1].last_poll > controllers[2].last_poll
  /\ controllers[1].priority = 5 /\ controllers[1].unilateral
  /\ artPollReplyCount = 3
  /\ sent # <<>>

\* C8: a tick of the poll timer sends exactly one ArtPoll if the send socket
\* is bound and no pollReply was issued less than pollInterval/2 ms before
\* the tick, and sends nothing otherwise.
C8_TickPollsUnlessRecentlyReplied ==
  [][op'.kind = "pollTick" =>
       sent' = IF socket_ready
                  /\ ~(replyAt # -1 /\ 2 * (now - replyAt) < PollInterval)
               THEN << [from |-> 0, to |-> <<255, 255, 255, 255>>, port |-> 6454,
                        msg |-> <<65, 114, 116, 45, 78, 101, 116, 0,
                                  0, 32, 0, 14, 0, 0>>] >>
               ELSE <<>>]_vars

\* C8 witness: a tick with the socket bound sent nothing, an ArtPoll having
\* been answered less than pollInterval/2 ms before.
C8_Witness ==
  /\ op.kind = "pollTick"
  /\ socket_ready
  /\ controllers # <<>>
  /\ replyAt # -1 /\ replyAt < now /\ 2 * (now - replyAt) < PollInterval
  /\ sent = <<>>

\* The last operation handled an ArtPollReply datagram long enough to hold
\* every field of the record.
IsReplyDatagram(o) ==
  /\ o.kind = "datagram"
  /\ Len(o.args[1]) >= 214
  /\ SubSeq(o.args[1], 1, 8) = ArtNetId \o <<0>>
  /\ o.args[1][9] = 0 /\ o.args[1][10] = 33

\* The short and long name fields of a reply, trailing NULs removed.
ShortNameOf(msg) == StripNul(SubSeq(msg, 27, 44))
LongNameOf(msg) == StripNul(SubSeq(msg, 45, 108))

\* The reply comes from a local interface and carries this engine's names.
SelfReply(o) ==
  /\ \E k \in 1..Len(INTERFACES) : INTERFACES[k].ip = o.args[2]
  /\ ShortNameOf(o.args[1]) = Slice(OptName, 16)
  /\ LongNameOf(o.args[1]) = Slice(OptName, 28) \o <<32>> \o Uuid

\* (A step that leaves the clock alone and ends with op a datagram is the
\* handling of that datagram.)
\* C9: when the same ArtPollReply record (same content, same source, hence
\* same MAC) is handled twice in succession, the second handling reports no
\* change: no node-update is emitted and the registry is as the first left
\* it, IP, names and port tables included, but for the last-update time.
C9_SecondIdenticalReplyUnchanged ==
  [][(now' = now /\ op' = op /\ IsReplyDatagram(op') /\ ~SelfReply(op')) =>
       LET mac == SubSeq(op'.args[1], 202, 207) IN
       /\ events' = <<>>
       /\ mac \in DOMAIN nodes
       /\ nodes' = [nodes EXCEPT ![mac].lastUpdate = now']]_vars

\* C9 witness: a reply handled without a node-update, a second after the
\* node was given its port, names and address by an identical one.
C9_Witness ==
  /\ IsReplyDatagram(op) /\ ~SelfReply(op)
  /\ op.args[1] = ReplyA
  /\ events = <<>>
  /\ now > StartTime
  /\ Mac1 \in DOMAIN nodes
  /\ nodes[Mac1].lastUpdate = now
  /\ nodes[Mac1].shortName = <<65>>
  /\ nodes[Mac1].ip = op.args[2]
  /\ 0 \in DOMAIN nodes[Mac1].outPorts
  /\ nodes[Mac1].outPorts[0].isGood

\* C10: an ArtPollReply from a local interface address whose short and long
\* names are this engine's own changes nothing in the node registry and
\* emits no node-update; a reply failing either condition is processed as a
\* peer update: its node is in the registry with the reply's source address
\* and names, updated at the time of handling.
C10_SelfReplyIgnoredElsePeerUpdate ==
  [][(now' = now /\ IsReplyDatagram(op')) =>
       IF SelfReply(op')
       THEN nodes' = nodes /\ events' = <<>>
       ELSE LET mac == SubSeq(op'.args[1], 202, 207) IN
            /\ DOMAIN nodes' = DOMAIN nodes \cup {mac}
            /\ nodes'[mac].ip = op'.args[2]
            /\ nodes'[mac].shortName = ShortNameOf(op'.args[1])
            /\ nodes'[mac].longName = LongNameOf(op'.args[1])
            /\ nodes'[mac].lastUpdate = now'
            /\ \A m \in DOMAIN nodes \ {mac} : nodes'[m] = nodes[m]]_vars

\* C10 witness: the engine's own reply came back and was ignored, while the
\* registry holds a node that a peer registered under this engine's names.
C10_Witness ==
  /\ IsReplyDatagram(op) /\ SelfReply(op)
  /\ op.args[1][202] = 2 /\ op.args[1][207] = 1
  /\ events = <<>>
  /\ Mac1 \in DOMAIN nodes
  /\ nodes[Mac1].shortName = Slice(OptName, 16)
  /\ Cardinality(DOMAIN nodes) = 2

\* C11: a sweep at time now leaves exactly the Nodes with now - lastUpdate <
\* 30000 in the registry, unchanged, and leaves every Controller in the list,
\* with alive = false if now - lastPoll > 60000; the controller list never
\* shrinks; and as the sweep timer keeps firing, a Node that gets no further
\* ArtPollReply is eventually removed and a Controller that sends no further
\* ArtPoll is eventually marked not alive.
C11_SweepDropsNodesMarksControllers ==
  /\ [][op'.kind = "sweep" =>
          /\ DOMAIN nodes' = {m \in DOMAIN nodes : now' - nodes[m].lastUpdate < 30000}
          /\ \A m \in DOMAIN nodes' : nodes'[m] = nodes[m]
          /\ Len(controllers') = Len(controllers)
          /\ \A k \in 1..Len(controllers) :
               /\ now' - controllers[k].last_poll > 60000 => ~controllers'[k].alive
               /\ controllers'[k] = controllers[k]
                    \/ controllers'[k] = [controllers[k] EXCEPT !.alive = FALSE]]_vars
  /\ [][Len(controllers') >= Len(controllers)]_vars
  /\ \A mac \in {Mac1, Mac2} :
       (mac \in DOMAIN nodes) ~> (mac \notin DOMAIN nodes)
  /\ \A a \in SourceIps :
       (\E k \in 1..Len(controllers) : controllers[k].ip = a /\ controllers[k].alive)
         ~> (\E k \in 1..Len(controllers) : controllers[k].ip = a /\ ~controllers[k].alive)

\* C11 witness: a sweep has just removed one node and kept the other, which
\* was updated less than 30 s but more than 25 s before, and both controllers
\* are still in the list.
C11_Witness ==
  /\ op.kind = "sweep"
  /\ DOMAIN nodes = {Mac2}
  /\ now - nodes[Mac2].lastUpdate > 25000
  /\ now - nodes[Mac2].lastUpdate < 30000
  /\ Len(controllers) = 2

\* net * 256 + subnet * 16 + universe <= 32767, for non-negative arguments.
PortInRange(n, s, u) ==
  /\ n <= 127 /\ s <= 2047 /\ u <= 32767
  /\ n * 256 + s * 16 + u <= 32767

\* C12: newSender / newReceiver with non-negative net, subnet, universe: if
\* net*256 + subnet*16 + universe <= 32767 the device is created and added,
\* its port address is that value and its universe, subnet and net are the
\* value's low nibble, next nibble and the rest; otherwise an error is raised
\* to the caller and the registries are unchanged.
C12_PortAddressOrError ==
  [][op'.kind \in {"newSender", "newReceiver"} =>
       LET n == op'.args.net
           s == op'.args.subnet
           u == op'.args.universe
           v == n * 256 + s * 16 + u
           made(objs, objs1, reg, reg1) ==
             /\ Len(objs1) = Len(objs) + 1
             /\ reg1 = Append(reg, Len(objs1))
             /\ objs1[Len(objs1)].port_address = v
             /\ objs1[Len(objs1)].universe = v % 16
             /\ objs1[Len(objs1)].subnet = (v \div 16) % 16
             /\ objs1[Len(objs1)].net = v \div 256
       IN IF PortInRange(n, s, u)
          THEN /\ raised' = "none"
               /\ IF op'.kind = "newSender"
                  THEN made(sobj, sobj', senders, senders') /\ UNCHANGED <<robj, receivers>>
                  ELSE made(robj, robj', receivers, receivers') /\ UNCHANGED <<sobj, senders>>
          ELSE /\ raised' # "none"
               /\ UNCHANGED <<sobj, senders, robj, receivers>>]_vars

\* The packets pk are those of the groups keys, group after group, and each
\* carries its group's net at offset 18, its subnet at offset 19 and the OEM
\* code of the engine at offsets 20-21.
RECURSIVE CarriesSwitches(_, _)
CarriesSwitches(pk, keys) ==
  IF keys = <<>> THEN pk = <<>>
  ELSE LET n == (Len(Members(Head(keys))) + 3) \div 4 IN
       /\ Len(pk) >= n
       /\ \A i \in 1..n :
            /\ pk[i].msg[19] = Head(keys)[2]
            /\ pk[i].msg[20] = Head(keys)[3]
            /\ pk[i].msg[21] * 256 + pk[i].msg[22] = 10504
       /\ CarriesSwitches(SubSeq(pk, n + 1, Len(pk)), Tail(keys))

\* C13: every ArtPollReply packet of a pollReply() carries the net of its
\* group in the net-switch byte, the subnet of its group in the sub-switch
\* byte after it, and the configured OEM code (0x2908) in the two bytes that
\* follow.
C13_NetSubnetOemFields ==
  RepliedBy(op) =>
    \E keys \in [1..Cardinality(DeviceKeys) -> DeviceKeys] :
      /\ \A a, b \in 1..Cardinality(DeviceKeys) : a # b => keys[a] # keys[b]
      /\ CarriesSwitches(sent, keys)

\* The datagram is shorter than 10 bytes, or does not start with 'Art-Net'
\* and a zero byte, or its OpCode is zero or none of ArtDmx (0x5000), ArtPoll
\* (0x2000), ArtPollReply (0x2100).
NotForTheEngine(msg) ==
  \/ Len(msg) < 10
  \/ SubSeq(msg, 1, 8) # <<65, 114, 116, 45, 78, 101, 116, 0>>
  \/ msg[9] + 256 * msg[10] \notin {20480, 8192, 8448}

\* C14: handling such a datagram has no effect: controllers, nodes, the
\* receivers' buffers, the reply counter and the last-reply timestamp are
\* unchanged, nothing is sent, no notification is emitted, no error raised.
C14_JunkDiscardedWithoutEffect ==
  [][(op'.kind = "datagram" /\ NotForTheEngine(op'.args[1])) =>
       /\ UNCHANGED <<controllers, nodes, robj, receivers, artPollReplyCount,
                      last_poll_reply>>
       /\ sent' = <<>>
       /\ events' = <<>>
       /\ raised' = "none"]_vars

\* C14 witness: a datagram with OpCode 0x5001 over the body of an ArtDmx was
\* dropped by an engine that has a Sender, a Receiver whose buffer holds
\* data, a controller and a node.
C14_Witness ==
  /\ op.kind = "datagram"
  /\ op.args[1] = WithOpCode(GoodDmx, 1, 80)
  /\ senders # <<>>
  /\ Len(robj) >= 1 /\ robj[1].values = [i \in 1..NumChannels |-> 9]
  /\ controllers # <<>>
  /\ nodes # <<>>
  /\ sent = <<>> /\ events = <<>> /\ raised = "none"

\* C15: an ArtDmx datagram of less than 18 bytes is delivered to no
\* Receiver: no receiver's buffer changes and no data notification is
\* emitted, also when its byte at offset 14 and its source match a Receiver.
C15_ShortArtDmxRejected ==
  [][(/\ op'.kind = "datagram"
      /\ Len(op'.args[1]) >= 10 /\ Len(op'.args[1]) < 18
      /\ SubSeq(op'.args[1], 1, 8) = <<65, 114, 116, 45, 78, 101, 116, 0>>
      /\ op'.args[1][9] = 0 /\ op'.args[1][10] = 80) =>
       /\ robj' = robj
       /\ events' = <<>>]_vars

\* C16: an ArtPoll datagram shorter than 14 bytes, or whose protocol version,
\* the big-endian word at offsets 10-11, is below 14, is discarded: the
\* controllers, the reply counter and the last-reply timestamp are unchanged
\* and no ArtPollReply is sent.
C16_OldOrShortArtPollDiscarded ==
  [][(/\ op'.kind = "datagram"
      /\ Len(op'.args[1]) >= 10
      /\ SubSeq(op'.args[1], 1, 8) = <<65, 114, 116, 45, 78, 101, 116, 0>>
      /\ op'.args[1][9] = 0 /\ op'.args[1][10] = 32
      /\ \/ Len(op'.args[1]) < 14
         \/ op'.args[1][11] * 256 + op'.args[1][12] < 14) =>
       /\ UNCHANGED <<controllers, artPollReplyCount, last_poll_reply>>
       /\ sent' = <<>>]_vars

\* C17: handling an ArtPollReply datagram of any length raises no error, and
\* one shorter than the 214 bytes the decoder reads (through the MAC
\* address, the bind IP and the bind-index byte at offset 213) is discarded:
\* the node registry is unchanged and no node-update is emitted.
C17_ShortReplyDiscardedNoError ==
  [][(/\ now' = now
      /\ op'.kind = "datagram"
      /\ Len(op'.args[1]) >= 10
      /\ SubSeq(op'.args[1], 1, 8) = <<65, 114, 116, 45, 78, 101, 116, 0>>
      /\ op'.args[1][9] = 0 /\ op'.args[1][10] = 33) =>
       /\ raised' = "none"
       /\ Len(op'.args[1]) < 214 => (nodes' = nodes /\ events' = <<>>)]_vars

\* The transport failure a step reports ("none" if it reports none): the
\* error of an 'error' event of the listening socket or of a failed send.
FailureOf(o) ==
  IF o.kind \in {"listenerError", "sendCallback"} THEN o.args[1] ELSE "none"

\* C18: every transport failure (an error event of the listening socket, a
\* failed send of an ArtDmx, ArtPoll or ArtPollReply datagram) is given
\* exactly once to errFunc when errFunc is configured, and is raised when it
\* is not; it is never dropped or turned into another error.
C18_TransportFailuresReachTheSink ==
  [][FailureOf(op') # "none" =>
       IF errFunc
       THEN /\ events' = SinkEvents(<<FailureOf(op')>>)
            /\ raised' = "none"
       ELSE /\ events' = <<>>
            /\ raised' = FailureOf(op')]_vars

\* A call of the channel API with a channel outside 0..511 or a value
\* outside 0..255 (the value is the last argument, the channels the others).
BadChannelCall(o) ==
  /\ o.kind \in {"setChannel", "prepChannel", "fillChannels"}
  /\ \/ \E k \in 1..(Len(o.args) - 1) : o.args[k] < 0 \/ o.args[k] > 511
     \/ o.args[Len(o.args)] < 0 \/ o.args[Len(o.args)] > 255

\* C19: setChannel, prepChannel or fillChannels called with a channel outside
\* 0..511 or a value outside 0..255 raises an error to its caller and does
\* nothing else (buffer and sequence counter unchanged, nothing transmitted);
\* and the buffer of every Sender always has its full length (NumChannels in
\* the model, 512 in the program) with every entry in 0..255.
C19_BadChannelCallsRaiseOnly ==
  /\ [](\A id \in 1..Len(sobj) :
          /\ Len(sobj[id].values) = NumChannels
          /\ \A i \in 1..NumChannels : sobj[id].values[i] \in 0..255)
  /\ [][BadChannelCall(op') =>
          /\ raised' # "none"
          /\ sobj' = sobj
          /\ sent' = <<>>
          /\ txLast' = txLast]_vars

C19_Witness ==
  /\ BadChannelCall(op)
  /\ op.kind = "fillChannels"
  /\ raised = "TypeError"
  /\ sobj[op.id].ArtDmxSeq > 0
  /\ sobj[op.id].values[1] = 255

\* C20: a Sender or Receiver whose address filter (to, from) matches no
\* local interface is created and registered without an error, and then it
\* routes nothing: such a Receiver takes no ArtDmx datagram from any source
\* (its buffer stays as it is and it emits no data), and no ArtDmx packet
\* of such a Sender is handed to a socket.
C20_NoInterfaceNoTraffic ==
  [][/\ (op'.kind = "newSender" /\
         SenderDestination(op'.args.to, op'.args.broadcast).interfaces = <<>>) =>
          /\ raised' = "none"
          /\ senders' = Append(senders, op'.id)
     /\ (op'.kind = "newReceiver" /\
         \A k \in 1..Len(INTERFACES) :
           ~Contains(ReceiverIpnet(op'.args.from), INTERFACES[k].ip)) =>
          /\ raised' = "none"
          /\ receivers' = Append(receivers, op'.id)
     /\ \A id \in 1..Len(robj) :
          robj[id].interfaces = <<>> =>
            /\ robj'[id] = robj[id]
            /\ \A k \in 1..Len(events') :
                 ~(events'[k].type = "data" /\ events'[k].id = id)
     /\ \A k \in 1..Len(sent') :
          sent'[k].from > 0 => sobj'[sent'[k].from].interfaces # <<>>]_vars

\* The address is that of a local interface or lies in the subnet of one.
InLocalSubnet(ip) ==
  \E k \in 1..Len(INTERFACES) :
    \/ INTERFACES[k].ip = ip
    \/ Contains(INTERFACES[k].netmask, ip)

\* The ports of a table (a function of port numbers), as a set.
PortsOf(table) == {table[p] : p \in DOMAIN table}

\* The report field of a reply, trailing NULs removed, and its MAC address.
ReportOf(msg) == StripNul(SubSeq(msg, 109, 172))
MacOf(msg) == SubSeq(msg, 202, 207)

\* The two port tables of the Node of a MAC address, empty if there is none.
TablesOf(nds, mac) ==
  IF mac \in DOMAIN nds THEN <<nds[mac].inPorts, nds[mac].outPorts>>
  ELSE << <<>>, <<>> >>

\* C21: every port stored in a Node's input or output table has an IP that
\* is a local interface's or lies inside a local subnet; and an ArtPollReply
\* (not the engine's own) from an address outside every local subnet still
\* creates or updates the Node (IP, names, status, timestamp) while its port
\* tables stay as they were.
C21_OnlyLocalSubnetPortsRecorded ==
  /\ [](\A mac \in DOMAIN nodes :
          \A port \in PortsOf(nodes[mac].inPorts) \cup PortsOf(nodes[mac].outPorts) :
            InLocalSubnet(port.ip))
  /\ [][(/\ now' = now
         /\ IsReplyDatagram(op')
         /\ ~SelfReply(op')
         /\ ~InLocalSubnet(op'.args[2])) =>
          LET msg == op'.args[1]
              mac == MacOf(msg)
          IN /\ mac \in DOMAIN nodes'
             /\ nodes'[mac].ip = op'.args[2]
             /\ nodes'[mac].shortName = ShortNameOf(msg)
             /\ nodes'[mac].longName = LongNameOf(msg)
             /\ nodes'[mac].status = ReportOf(msg)
             /\ nodes'[mac].lastUpdate = now'
             /\ TablesOf(nodes', mac) = TablesOf(nodes, mac)]_vars

\* A reply from outside the local subnets was handled for a Node that holds
\* a port recorded earlier: the Node has the new IP and the old port.
C21_Witness ==
  /\ IsReplyDatagram(op)
  /\ op.args[2] = <<10, 9, 9, 9>>
  /\ MacOf(op.args[1]) \in DOMAIN nodes
  /\ LET n == nodes[MacOf(op.args[1])]
     IN /\ n.ip = <<10, 9, 9, 9>>
        /\ 0 \in DOMAIN n.outPorts
        /\ n.outPorts[0].ip = <<10, 0, 0, 7>>

\* The Node of a MAC address before a reply is handled: the one registered,
\* or the fresh one the handler creates.
NodeOf(nds, mac) ==
  IF mac \in DOMAIN nds THEN nds[mac]
  ELSE [mac |-> mac, ip |-> <<>>, shortName |-> <<>>, longName |-> <<>>,
        status |-> <<>>, lastUpdate |-> 0, inPorts |-> <<>>, outPorts |-> <<>>]

\* The step handles an ArtPollReply that is not the engine's own.
HandlesPeerReply ==
  /\ now' = now
  /\ IsReplyDatagram(op')
  /\ ~SelfReply(op')

NodeUpdateEmitted ==
  events' = << [type |-> "node-update", mac |-> MacOf(op'.args[1])] >>

\* C22: handling an accepted ArtPollReply emits node-update exactly when the
\* Node's IP, short name, long name, status (report string) or one of its
\* recorded port descriptors (isGood included) differs from what it was
\* before, and emits nothing when none of them differs.
C22_UpdateIffObservableChange ==
  [][HandlesPeerReply =>
       LET mac == MacOf(op'.args[1])
           old == NodeOf(nodes, mac)
           new == nodes'[mac]
           differs == \/ old.ip # new.ip
                      \/ old.shortName # new.shortName
                      \/ old.longName # new.longName
                      \/ old.status # new.status
                      \/ old.inPorts # new.inPorts
                      \/ old.outPorts # new.outPorts
       IN IF differs THEN NodeUpdateEmitted ELSE events' = <<>>]_vars

\* C22 as the code has it: the status (and the timestamp) are written after
\* the comparison and are not part of it. node-update is emitted exactly
\* when the IP, the short name, the long name or a recorded port descriptor
\* differs.
C22_UpdateIffTrackedChange ==
  [][HandlesPeerReply =>
       LET mac == MacOf(op'.args[1])
           old == NodeOf(nodes, mac)
           new == nodes'[mac]
           differs == \/ old.ip # new.ip
                      \/ old.shortName # new.shortName
                      \/ old.longName # new.longName
                      \/ old.inPorts # new.inPorts
                      \/ old.outPorts # new.outPorts
       IN IF differs THEN NodeUpdateEmitted ELSE events' = <<>>]_vars

\* The reply with the other report was handled without a notification for
\* a Node that holds a port, and the Node has the new status.
C22_Witness ==
  /\ op.kind = "datagram"
  /\ op.args = <<ReplyReport, <<10, 0, 0, 7>>>>
  /\ events = <<>>
  /\ nodes[Mac1].status = <<114, 50>>
  /\ nodes[Mac1].outPorts[0].isGood
  /\ nodes[Mac1].lastUpdate > StartTime

\* The chunks of one pollReply() call in the order of its packets: the
\* devices of each chunk, its bindIndex and its interface.
ChunkList ==
  Flatten([j \in 1..Len(groupedDevices) |->
    [c \in 1..((Len(groupedDevices[j].devices) + 3) \div 4) |->
       [iface |-> groupedDevices[j].iface, bindIndex |-> c - 1,
        devices |-> SubSeq(groupedDevices[j].devices, 4 * (c - 1) + 1,
                           Min(4 * c, Len(groupedDevices[j].devices)))]]])

\* The port tables of a peer engine (running this code, the sender's address
\* inside one of its subnets) that handles the packet as its first one.
PeerTables(msg) ==
  LET apr == DecodeReply(msg, SubSeq(msg, 11, 14))
  IN [ins |-> updatePorts(apr.inPorts, <<>>),
      outs |-> updatePorts(apr.outPorts, <<>>)]

\* The port a peer should record for device d in slot i of chunk b.
PortFor(d, b, i, good) ==
  [net |-> Dev(d).net, subnet |-> Dev(d).subnet, universe |-> Dev(d).universe,
   portNumber |-> 4 * b + i, isGood |-> good]

\* A recorded port without its ip.
Described(port) ==
  [net |-> port.net, subnet |-> port.subnet, universe |-> port.universe,
   portNumber |-> port.portNumber, isGood |-> port.isGood]

\* The peer's tables hold, for every device of the chunk, port 4b + i with
\* the device's address in the table of its direction, and nothing else.
PeerRecordsChunk(msg, chunk) ==
  LET t == PeerTables(msg)
      slots(kind) == {i \in 0..(Len(chunk.devices) - 1) :
                        chunk.devices[i + 1].kind = kind}
      holds(table, kind) ==
        /\ DOMAIN table = {4 * chunk.bindIndex + i : i \in slots(kind)}
        /\ \A i \in slots(kind) :
             /\ table[4 * chunk.bindIndex + i].ip = INTERFACES[chunk.iface].ip
             /\ Described(table[4 * chunk.bindIndex + i])
                  = PortFor(chunk.devices[i + 1], chunk.bindIndex, i, TRUE)
  IN holds(t.outs, "S") /\ holds(t.ins, "R")

\* C23: a peer running this code that decodes a packet of pollReply() (the
\* sender's IP inside one of its subnets) records, for every slot i of the
\* chunk with bindIndex b that holds a device, port 4b + i in its output
\* table for a Sender and in its input table for a Receiver, with the
\* device's net, subnet and universe and isGood = true, and no other port.
C23_ReplyRoundTrip ==
  (op.kind = "pollReply") =>
    /\ Len(sent) = Len(ChunkList)
    /\ \A k \in 1..Len(sent) : PeerRecordsChunk(sent[k].msg, ChunkList[k])

\* The devices that exist and were not stopped: every Sender constructed
\* whose socket was not closed by stop(), and every Receiver constructed.
LiveDevices ==
  {[kind |-> "S", id |-> id] : id \in {i \in 1..Len(sobj) : sobj[i].sock # "closed"}}
    \cup {[kind |-> "R", id |-> id] : id \in 1..Len(robj)}

\* A device together with one of the interfaces it resolved to, and what a
\* packet says of it: the interface address, the port type, the universe, and
\* the net and subnet (where createPacket writes them, bytes 19 and 20-21).
ResolvedSlots ==
  {<<d, x>> \in LiveDevices \X (1..Len(INTERFACES)) : x <= Len(Dev(d).interfaces)}
ResolvedDescription(r) ==
  << INTERFACES[Dev(r[1]).interfaces[r[2]]].ip,
     IF r[1].kind = "S" THEN 64 ELSE 128,
     Dev(r[1]).universe, Dev(r[1]).net, Dev(r[1]).subnet >>

\* The port slots the packets of the last operation describe.
AdvertisedSlots ==
  {<<k, j>> \in (1..Len(sent)) \X (0..3) :
     j < sent[k].msg[173] * 256 + sent[k].msg[174]}
AdvertisedDescription(a) ==
  LET m == sent[a[1]].msg
      j == a[2]
      nib(lo, hi) == IF j < 2 THEN (m[lo] \div Pow2(4 * j)) % 16
                     ELSE (m[hi] \div Pow2(4 * (j - 2))) % 16
  IN << SubSeq(m, 11, 14), m[178 - j],
        IF m[178 - j] = 64 THEN nib(191, 192) ELSE nib(187, 188),
        m[20], m[21] * 256 + m[22] >>

\* C24: the packets of a pollReply() call describe exactly the Senders and
\* Receivers registered at the call, each once for every interface it
\* resolved to: a device with k interfaces is described k times (once in the
\* packets of each interface), a device with no interface is described
\* nowhere, and a stopped Sender is described in no later packet.
C24_AdvertisedAreTheRegistered ==
  (op.kind = "pollReply") =>
    \A desc \in {ResolvedDescription(r) : r \in ResolvedSlots}
                  \cup {AdvertisedDescription(a) : a \in AdvertisedSlots} :
      Cardinality({a \in AdvertisedSlots : AdvertisedDescription(a) = desc})
        = Cardinality({r \in ResolvedSlots : ResolvedDescription(r) = desc})

\* pollReply() with a stopped Sender that had resolved to an interface, a
\* Receiver that resolved to none, and a Receiver on both interfaces, which
\* is described in one packet for each.
C24_Witness ==
  /\ op.kind = "pollReply"
  /\ \E id \in 1..Len(sobj) :
       sobj[id].sock = "closed" /\ sobj[id].interfaces # <<>>
  /\ \E id \in 1..Len(robj) : robj[id].interfaces = <<>>
  /\ \E id \in 1..Len(robj) : Len(robj[id].interfaces) = 2
  /\ Len(sent) = 2
  /\ Cardinality(AdvertisedSlots) = 2

\* The entries of a port table kept from one state to the next: every port
\* number stays, and outside the set may the entry is the same.
KeepsPorts(old, new, may) ==
  /\ DOMAIN old \subseteq DOMAIN new
  /\ \A p \in DOMAIN new \ may : p \in DOMAIN old /\ new[p] = old[p]

\* The port numbers 4 * bindIndex .. 4 * bindIndex + 3 of a reply.
PortRangeOf(msg) == (4 * msg[214])..(4 * msg[214] + 3)

\* C25: while a Node stays in the registry, no port number leaves its input
\* or output table, whatever ArtPollReply is handled (fewer ports, another
\* direction, another source address); handling a reply changes at most the
\* entries 4 * bindIndex .. 4 * bindIndex + 3 of the Node of its MAC
\* address; and a Node leaves the registry, with its ports, only in a sweep.
C25_PortTablesOnlyGrow ==
  [][/\ (op'.kind # "sweep") => DOMAIN nodes \subseteq DOMAIN nodes'
     /\ \A mac \in DOMAIN nodes \cap DOMAIN nodes' :
          LET may == IF now' = now /\ IsReplyDatagram(op') /\ MacOf(op'.args[1]) = mac
                     THEN PortRangeOf(op'.args[1]) ELSE {}
          IN /\ KeepsPorts(nodes[mac].inPorts, nodes'[mac].inPorts, may)
             /\ KeepsPorts(nodes[mac].outPorts, nodes'[mac].outPorts, may)]_vars

\* The reply without ports was handled for a Node that holds output ports 0
\* and 4 and input ports 0 and 1.
C25_Witness ==
  /\ op.kind = "datagram"
  /\ op.args = <<ReplyNone, <<10, 0, 0, 7>>>>
  /\ DOMAIN nodes[Mac1].outPorts = {0, 4}
  /\ DOMAIN nodes[Mac1].inPorts = {0, 1}

====
